---- MODULE Spec2Model ----
(***************************************************************************)
(* A model of the Reddit extract -> transform -> validate -> persist       *)
(* pipeline (src/src/pipelines/reddit_pipeline.py and the components it    *)
(* drives).                                                                *)
(*                                                                         *)
(* Data representation.  A cell of a DataFrame is a tagged record:         *)
(*   None      Python's None held in an object column                      *)
(*   NaN       numpy.nan / NaT, the missing value pandas produces          *)
(*   Str(s)    a string; s is the sequence of its characters               *)
(*   Num(n)    an integer                                                  *)
(*   Flt(n)    a float, held as hundredths (Flt(95) is 0.95)               *)
(*   Bool(b)   a boolean                                                   *)
(*   Date(n)   a datetime64 value, n seconds after the epoch               *)
(*   Cat(s)    a value of a categorical column                             *)
(* A DataFrame is [cols, dtype, rows]: the ordered column names, the dtype *)
(* of every column and the rows in order, each a function from the column  *)
(* names to cells.  pandas is modelled as pandas 2.x behaves (setup.py     *)
(* requires pandas>=2.1.0): object columns keep None, astype(str) turns    *)
(* None into 'None' and nan into 'nan'.                                    *)
(***************************************************************************)
EXTENDS Integers, Sequences, FiniteSets, TLC

VARIABLES
    pc,          \* position of RedditPipeline.run / of the function under check
    subreddits,  \* run(subreddits=...): the partitions, in order
    validate,    \* run(validate=...)
    transform,   \* run(transform=...)
    idx,         \* extract_posts_batch: index of the next subreddit of the loop
    all_posts,   \* extract_posts_batch: all_posts
    fetched,     \* history: per subreddit already visited, what its fetch gave
    df,          \* the DataFrame the run (or the function under check) holds
    vresult,     \* the last ValidationResult returned (NoResult before)
    outcome,     \* how the call ended: NoOutcome, a return value or an exception
    file,        \* the artifact at the output location
    hist,        \* history: the stages entered so far, in order
    caught,      \* run: the exception its handler caught (NoException before)
    arg,         \* the input of the function under check, when one is checked alone
    conf,        \* the DataValidator configuration
    clock,       \* the time pd.Timestamp.now() reads
    prev         \* what the previous call of the function under check returned

vars == <<pc, subreddits, validate, transform, idx, all_posts, fetched, df,
          vresult, outcome, file, hist, caught, arg, conf, clock, prev>>

\* what a call never changes after it has started
inputs == <<subreddits, validate, transform, arg, conf>>

-----------------------------------------------------------------------------
(* Bounds of the model *)

MaxSubreddits == 2
MaxRows == 2
MaxFrameRows == 3
MaxElapsed == 1000
\* the longest listing streamed and the largest batch size
MaxStreamLen == 4
MaxBatch == 2

-----------------------------------------------------------------------------
(* Cells *)

None == [t |-> "None"]
NaN == [t |-> "NaN"]
Str(s) == [t |-> "str", v |-> s]
Num(n) == [t |-> "int", v |-> n]
Flt(n) == [t |-> "float", v |-> n]
Bool(b) == [t |-> "bool", v |-> b]
Date(n) == [t |-> "date", v |-> n]
Cat(s) == [t |-> "cat", v |-> s]

\* pandas isna()/isnull(): None, nan and NaT are missing
IsNull(c) == c.t \in {"None", "NaN"}

NotNa(c) == ~IsNull(c)

IsNumber(c) == c.t \in {"int", "float"}

\* the characters str.strip() and str.split() treat as whitespace
Whitespace == {" ", "\t", "\n"}

s_nan == <<"n", "a", "n">>
s_None == <<"N", "o", "n", "e">>
s_True == <<"T", "r", "u", "e">>
s_False == <<"F", "a", "l", "s", "e">>

RECURSIVE LStrip(_)
LStrip(s) ==
    IF s # <<>> /\ Head(s) \in Whitespace THEN LStrip(Tail(s)) ELSE s

RECURSIVE RStrip(_)
RStrip(s) ==
    IF s # <<>> /\ s[Len(s)] \in Whitespace
    THEN RStrip(SubSeq(s, 1, Len(s) - 1))
    ELSE s

\* str.strip()
Strip(s) == RStrip(LStrip(s))

\* len(s.split()): the number of maximal runs of non-whitespace characters
WordCount(s) ==
    Cardinality({i \in 1..Len(s) :
        /\ s[i] \notin Whitespace
        /\ (i = 1 \/ s[i - 1] \in Whitespace)})

-----------------------------------------------------------------------------
(* DataFrames *)

Range(s) == {s[i] : i \in 1..Len(s)}

\* pd.DataFrame()
EmptyFrame == [cols |-> <<>>, dtype |-> <<>>, rows |-> <<>>]

\* IsEmpty looking at the columns only
IsEmptyNoColumns(d) == Len(d.cols) = 0

\* DataFrame.empty: some axis has length 0
IsEmpty(d) == Len(d.cols) = 0 \/ Len(d.rows) = 0

HasCol(d, c) == c \in Range(d.cols)

\* df[c] as the sequence of its cells
Column(d, c) == [i \in 1..Len(d.rows) |-> d.rows[i][c]]

RECURSIVE SelectSeq2(_, _)
SelectSeq2(s, keep) ==
    IF s = <<>> THEN <<>>
    ELSE IF keep[1]
         THEN <<Head(s)>> \o SelectSeq2(Tail(s), Tail(keep))
         ELSE SelectSeq2(Tail(s), Tail(keep))

\* df[mask]: the rows whose mask entry is true, in order
Filter(d, keep) == [d EXCEPT !.rows = SelectSeq2(d.rows, keep)]

\* df[c] = f(cell), with the column's new dtype (c is an existing column)
MapCol(d, c, F(_), dt) ==
    [d EXCEPT !.dtype = [@ EXCEPT ![c] = dt],
              !.rows = [i \in 1..Len(d.rows) |->
                            [d.rows[i] EXCEPT ![c] = F(d.rows[i][c])]]]

\* df[c] = vals for a column c that may be new (appended as the last column)
SetCol(d, c, vals, dt) ==
    LET names == Range(d.cols) \cup {c} IN
    [cols |-> IF HasCol(d, c) THEN d.cols ELSE Append(d.cols, c),
     dtype |-> [n \in names |-> IF n = c THEN dt ELSE d.dtype[n]],
     rows |-> [i \in 1..Len(d.rows) |->
                  [n \in names |-> IF n = c THEN vals[i] ELSE d.rows[i][n]]]]

-----------------------------------------------------------------------------
(* RedditExtractor *)

POST_FIELDS ==
    <<"id", "subreddit", "title", "selftext", "score", "num_comments",
      "author", "created_utc", "upvote_ratio", "url", "permalink", "is_self",
      "over_18", "stickied", "distinguished">>

\* A record as _extract_post_fields returns it: one key per field of POST_FIELDS
Post(id, subreddit, title, selftext, score, num_comments, created_utc, distinguished) ==
    [f \in Range(POST_FIELDS) |->
        CASE f = "id" -> id
          [] f = "subreddit" -> subreddit
          [] f = "title" -> title
          [] f = "selftext" -> selftext
          [] f = "score" -> score
          [] f = "num_comments" -> num_comments
          [] f = "author" -> Str(<<"u">>)
          [] f = "created_utc" -> created_utc
          [] f = "upvote_ratio" -> Flt(95)
          [] f = "url" -> Str(<<"h">>)
          [] f = "permalink" -> Str(<<"/">>)
          [] f = "is_self" -> Bool(selftext # Str(<<>>))
          [] f = "over_18" -> Bool(FALSE)
          [] f = "stickied" -> Bool(FALSE)
          [] f = "distinguished" -> distinguished]

\* The posts the source can serve in the pipeline runs checked: a self post, a
\* link post (empty selftext), a second listing of the first post's id from
\* another subreddit, a moderator post, and a post whose score the source
\* holds as text.
PostPool ==
    {Post(Str(<<"a">>), Str(<<"r">>), Str(<<"H", "i">>), Str(<<"t">>), Num(5), Num(1), Num(100), None),
     Post(Str(<<"b">>), Str(<<"r">>), Str(<<"L">>), Str(<<>>), Num(0), Num(0), Num(200), None),
     Post(Str(<<"a">>), Str(<<"q">>), Str(<<"H", "i">>), Str(<<"t">>), Num(7), Num(2), Num(100), None),
     Post(Str(<<"c">>), Str(<<"q">>), Str(<<"M">>), Str(<<"t">>), Num(-1), Num(3), Num(300), Str(<<"m">>)),
     Post(Str(<<"d">>), Str(<<"r">>), Str(<<"N">>), Str(<<"t">>), Str(<<"7">>), Num(1), Num(100), Str(<<"m">>))}

RECURSIVE SeqsUpTo(_, _)
SeqsUpTo(S, n) ==
    IF n = 0 THEN {<<>>}
    ELSE LET shorter == SeqsUpTo(S, n - 1) IN
         shorter \cup {Append(s, x) : s \in shorter, x \in S}

\* The dtype pandas infers for a column built from Python values
InferDtype(cells) ==
    LET tags == {cells[i].t : i \in 1..Len(cells)} IN
    CASE tags = {"int"} -> "int64"
      [] tags # {} /\ tags \subseteq {"int", "float", "None", "NaN"}
            /\ tags \cap {"int", "float", "NaN"} # {} -> "float64"
      [] tags = {"bool"} -> "bool"
      [] OTHER -> "object"

\* The cell as stored in a column of that dtype: a float64 column holds
\* floats, with None turned into nan; an object column keeps None
Coerce(c, dt) ==
    IF dt = "float64"
    THEN (IF IsNull(c) THEN NaN ELSE IF c.t = "int" THEN Flt(100 * c.v) ELSE c)
    ELSE c

\* pd.DataFrame(records) for a non-empty list of dicts with the same keys
FromRecords(records, fields) ==
    LET names == Range(fields)
        dt == [n \in names |-> InferDtype([i \in 1..Len(records) |-> records[i][n]])]
    IN [cols |-> fields,
        dtype |-> dt,
        rows |-> [i \in 1..Len(records) |->
                    [n \in names |-> Coerce(records[i][n], dt[n])]]]

\* extract_posts_batch, lines 205-211: the DataFrame returned for all_posts
BatchResult(posts) ==
    IF posts = <<>> THEN EmptyFrame ELSE FromRecords(posts, POST_FIELDS)

-----------------------------------------------------------------------------
(* DataTransformer *)

Digit(k) == <<"0", "1", "2", "3", "4", "5", "6", "7", "8", "9">>[k + 1]

RECURSIVE NatStr(_)
NatStr(n) == IF n < 10 THEN <<Digit(n)>> ELSE NatStr(n \div 10) \o <<Digit(n % 10)>>

\* str(n) for an int
IntStr(n) == IF n < 0 THEN <<"-">> \o NatStr(-n) ELSE NatStr(n)

\* str(x) for a float of n hundredths: '5.0', '0.95', '0.5', '-1.25'
FloatStr(n) ==
    LET a == IF n < 0 THEN -n ELSE n
        frac == a % 100
        tail == IF frac % 10 = 0 THEN <<Digit(frac \div 10)>>
                ELSE <<Digit(frac \div 10), Digit(frac % 10)>>
    IN (IF n < 0 THEN <<"-">> ELSE <<>>) \o NatStr(a \div 100) \o <<".">> \o tail

\* astype(str) of one cell: str(None) is 'None', str(nan) is 'nan'
ToStr(c) ==
    CASE c.t = "None" -> Str(s_None)
      [] c.t = "NaN" -> Str(s_nan)
      [] c.t = "str" -> c
      [] c.t = "int" -> Str(IntStr(c.v))
      [] c.t = "float" -> Str(FloatStr(c.v))
      [] c.t = "bool" -> Str(IF c.v THEN s_True ELSE s_False)
      [] OTHER -> Str(<<"?">>)

\* .replace(old, np.nan) of one cell
ReplaceWithNaN(c, olds) == IF c \in olds THEN NaN ELSE c

\* line 65: df[col].astype(str).replace('nan', np.nan)
ToStringCell(c) == ReplaceWithNaN(ToStr(c), {Str(s_nan)})

DigitValue(ch) == CHOOSE k \in 0..9 : Digit(k) = ch

IsDigits(s) == s # <<>> /\ \A i \in 1..Len(s) : s[i] \in {Digit(k) : k \in 0..9}

RECURSIVE ParseNat(_)
ParseNat(s) ==
    IF s = <<>> THEN 0
    ELSE 10 * ParseNat(SubSeq(s, 1, Len(s) - 1)) + DigitValue(s[Len(s)])

\* pd.to_numeric(errors='coerce') of one cell: numbers stay, missing values
\* become nan, a string holding a decimal integer is parsed, any other string
\* becomes nan
ToNumericCell(c) ==
    CASE IsNumber(c) -> c
      [] IsNull(c) -> NaN
      [] c.t = "str" ->
            LET s == Strip(c.v) IN
            IF IsDigits(s) THEN Num(ParseNat(s))
            ELSE IF s # <<>> /\ Head(s) = "-" /\ IsDigits(Tail(s))
                 THEN Num(-ParseNat(Tail(s)))
                 ELSE NaN
      [] c.t = "bool" -> Num(IF c.v THEN 1 ELSE 0)
      [] OTHER -> NaN

\* astype(bool) of one cell: Python truthiness (bool(None) is False,
\* bool(nan) is True)
ToBoolCell(c) ==
    CASE c.t = "None" -> Bool(FALSE)
      [] c.t = "NaN" -> Bool(TRUE)
      [] c.t = "str" -> Bool(c.v # <<>>)
      [] c.t \in {"int", "float"} -> Bool(c.v # 0)
      [] c.t = "bool" -> c
      [] OTHER -> Bool(TRUE)

\* pd.to_datetime(unit='s', errors='coerce') of one cell
ToDatetimeCell(c) ==
    LET n == ToNumericCell(c) IN
    CASE c.t = "date" -> c
      [] n.t = "int" -> Date(n.v)
      [] n.t = "float" -> Date(n.v \div 100)
      [] OTHER -> NaN

DayNames ==
    <<"Thursday", "Friday", "Saturday", "Sunday", "Monday", "Tuesday", "Wednesday">>

\* .dt.date, as the number of the day since 1970-01-01
DateOf(c) == IF c.t = "date" THEN Num(c.v \div 86400) ELSE NaN

\* .dt.hour
HourOf(c) == IF c.t = "date" THEN Num((c.v \div 3600) % 24) ELSE NaN

\* .dt.day_name(): 1970-01-01 was a Thursday
DayNameOf(c) == IF c.t = "date" THEN Str(DayNames[((c.v \div 86400) % 7) + 1]) ELSE NaN

\* A column computed cell by cell, with the dtype pandas gives the result
Computed(d, c, F(_)) == [i \in 1..Len(d.rows) |-> F(d.rows[i][c])]

NumericDtype(cells) ==
    IF \A i \in 1..Len(cells) : cells[i].t = "int" THEN "int64" ELSE "float64"

SetNumeric(d, c, cells) ==
    LET dt == NumericDtype(cells) IN
    SetCol(d, c, [i \in 1..Len(cells) |-> Coerce(cells[i], dt)], dt)

string_columns == <<"id", "subreddit", "title", "selftext", "author", "url", "permalink">>
numeric_columns == <<"score", "num_comments", "upvote_ratio">>
boolean_columns == <<"is_self", "over_18", "stickied", "distinguished">>

RECURSIVE ConvertStrings(_, _)
ConvertStrings(d, cols) ==
    IF cols = <<>> THEN d
    ELSE ConvertStrings(
            IF HasCol(d, Head(cols)) THEN MapCol(d, Head(cols), ToStringCell, "object") ELSE d,
            Tail(cols))

RECURSIVE ConvertNumerics(_, _)
ConvertNumerics(d, cols) ==
    IF cols = <<>> THEN d
    ELSE ConvertNumerics(
            IF HasCol(d, Head(cols))
            THEN SetNumeric(d, Head(cols), Computed(d, Head(cols), ToNumericCell))
            ELSE d,
            Tail(cols))

RECURSIVE ConvertBooleans(_, _)
ConvertBooleans(d, cols) ==
    IF cols = <<>> THEN d
    ELSE ConvertBooleans(
            IF HasCol(d, Head(cols)) THEN MapCol(d, Head(cols), ToBoolCell, "bool") ELSE d,
            Tail(cols))

ConvertDatetime(d) ==
    IF HasCol(d, "created_utc")
    THEN LET d1 == MapCol(d, "created_utc", ToDatetimeCell, "datetime64")
             d2 == SetCol(d1, "created_date", Computed(d1, "created_utc", DateOf), "object")
             d3 == SetNumeric(d2, "created_hour", Computed(d2, "created_utc", HourOf))
         IN SetCol(d3, "created_day_of_week", Computed(d3, "created_utc", DayNameOf), "object")
    ELSE d

\* _convert_types
ConvertTypes(d) ==
    ConvertDatetime(
        ConvertBooleans(
            ConvertNumerics(ConvertStrings(d, string_columns), numeric_columns),
            boolean_columns))

critical_fields == <<"id", "title">>
text_fields == <<"title", "selftext">>

\* lines 92-98: for each critical field in turn, df = df[df[field].notna()]
RECURSIVE DropMissing(_, _)
DropMissing(d, fields) ==
    IF fields = <<>> THEN d
    ELSE DropMissing(
            IF HasCol(d, Head(fields))
            THEN Filter(d, [i \in 1..Len(d.rows) |-> NotNa(d.rows[i][Head(fields)])])
            ELSE d,
            Tail(fields))

\* .str.strip() of one cell: a cell that is no string gives nan
StrStripCell(c) == IF c.t = "str" THEN Str(Strip(c.v)) ELSE NaN

\* line 104-105: df[field].str.strip(), then .replace('', np.nan)
CleanTextCell(c) == ReplaceWithNaN(StrStripCell(c), {Str(<<>>)})

RECURSIVE CleanText(_, _)
CleanText(d, fields) ==
    IF fields = <<>> THEN d
    ELSE CleanText(
            IF HasCol(d, Head(fields)) THEN MapCol(d, Head(fields), CleanTextCell, "object") ELSE d,
            Tail(fields))

s_deleted == <<"[", "d", "e", "l", "e", "t", "e", "d", "]">>
s_removed == <<"[", "r", "e", "m", "o", "v", "e", "d", "]">>

\* line 109
CleanAuthorCell(c) == ReplaceWithNaN(c, {Str(s_deleted), Str(s_removed), Str(s_nan)})

CleanAuthor(d) ==
    IF HasCol(d, "author") THEN MapCol(d, "author", CleanAuthorCell, "object") ELSE d

\* _clean_data: the critical-field filter runs first, the text cleaning after it
CleanData(d) == CleanAuthor(CleanText(DropMissing(d, critical_fields), text_fields))

\* .str.len() of one cell
StrLenCell(c) == IF c.t = "str" THEN Num(Len(c.v)) ELSE NaN

\* .str.split().str.len() of one cell
WordCountCell(c) == IF c.t = "str" THEN Num(WordCount(c.v)) ELSE NaN

TextFeatures(d, field) ==
    IF HasCol(d, field)
    THEN LET d1 == SetNumeric(d, field \o "_length", Computed(d, field, StrLenCell))
         IN SetNumeric(d1, field \o "_word_count", Computed(d1, field, WordCountCell))
    ELSE d

\* the value of a numeric cell, in hundredths
Val(c) == IF c.t = "int" THEN 100 * c.v ELSE c.v

\* line 126: df['score'] + (df['num_comments'] * 2), row by row
EngagementCell(score, num_comments) ==
    IF IsNumber(score) /\ IsNumber(num_comments)
    THEN (IF score.t = "int" /\ num_comments.t = "int"
          THEN Num(score.v + num_comments.v * 2)
          ELSE Flt(Val(score) + Val(num_comments) * 2))
    ELSE NaN

Engagement(d) ==
    IF HasCol(d, "score") /\ HasCol(d, "num_comments")
    THEN SetNumeric(d, "engagement_score",
            [i \in 1..Len(d.rows) |->
                EngagementCell(d.rows[i]["score"], d.rows[i]["num_comments"])])
    ELSE d

\* PopularityCell with intervals closed on the left (pd.cut with right=False)
PopularityCellLeftClosed(score) ==
    IF ~IsNumber(score) THEN NaN
    ELSE LET x == Val(score) IN
         CASE x < 0 -> Cat("Negative")
           [] x >= 0 /\ x < 1000 -> Cat("Low")
           [] x >= 1000 /\ x < 10000 -> Cat("Medium")
           [] x >= 10000 /\ x < 100000 -> Cat("High")
           [] OTHER -> Cat("Viral")

\* lines 130-134: pd.cut(score, bins=[-inf, 0, 10, 100, 1000, inf], labels=...),
\* whose intervals are closed on the right
PopularityCell(score) ==
    IF ~IsNumber(score) THEN NaN
    ELSE LET x == Val(score) IN
         CASE x <= 0 -> Cat("Negative")
           [] x > 0 /\ x <= 1000 -> Cat("Low")
           [] x > 1000 /\ x <= 10000 -> Cat("Medium")
           [] x > 10000 /\ x <= 100000 -> Cat("High")
           [] OTHER -> Cat("Viral")

Popularity(d) ==
    IF HasCol(d, "score")
    THEN SetCol(d, "popularity_category", Computed(d, "score", PopularityCell), "category")
    ELSE d

\* _engineer_features
EngineerFeatures(d) ==
    Popularity(Engagement(TextFeatures(TextFeatures(d, "title"), "selftext")))

\* Series.duplicated(keep='first'): one pass over the values in order with the
\* set of values seen so far; a row is marked when its value was seen before
RECURSIVE DuplicatedFrom(_, _)
DuplicatedFrom(cells, seen) ==
    IF cells = <<>> THEN <<>>
    ELSE <<Head(cells) \in seen>> \o DuplicatedFrom(Tail(cells), seen \cup {Head(cells)})

\* Duplicated with keep='last': a row is marked when its value occurs again later
RECURSIVE DuplicatedKeepLast(_)
DuplicatedKeepLast(cells) ==
    IF cells = <<>> THEN <<>>
    ELSE <<Head(cells) \in Range(Tail(cells))>> \o DuplicatedKeepLast(Tail(cells))

\* Duplicated marking only the first row that repeats an earlier value
DuplicatedFirstRepeat(cells) ==
    LET dup == DuplicatedFrom(cells, {}) IN
    [i \in 1..Len(cells) |-> dup[i] /\ \A j \in 1..(i - 1) : ~dup[j]]

\* df['id'].duplicated(), and the mask drop_duplicates(subset=['id'], keep='first') drops
Duplicated(cells) == DuplicatedFrom(cells, {})

\* RemoveDuplicates dropping no row
RemoveDuplicatesKeepsAll(d) == d

\* _remove_duplicates
RemoveDuplicates(d) ==
    IF HasCol(d, "id")
    THEN LET dup == Duplicated(Column(d, "id"))
         IN Filter(d, [i \in 1..Len(d.rows) |-> ~dup[i]])
    ELSE d

\* transform_reddit_posts, when no stage raises
TransformRedditPosts(d) ==
    IF IsEmpty(d) THEN d
    ELSE RemoveDuplicates(EngineerFeatures(CleanData(ConvertTypes(d))))

AllNaN(d, c) == \A i \in 1..Len(d.rows) : d.rows[i][c].t = "NaN"

\* lines 55-57: a stage that raises makes transform_reddit_posts raise
\* ProcessingException.  The .str accessor (lines 104, 117-122) raises
\* AttributeError on a column that is no longer of object dtype, and pandas 2.x
\* downcasts an object column to float64 when .replace (lines 65, 105) leaves
\* nothing but nan in it (the downcast pandas 2.2 deprecates).  Whether the
\* downcast happens depends on the pandas release, so on such an input
\* the call may raise or return.
TransformMayRaise(d) ==
    /\ ~IsEmpty(d)
    /\ \E f \in Range(text_fields) :
          /\ HasCol(d, f)
          /\ \/ AllNaN(ConvertTypes(d), f)
             \/ AllNaN(CleanData(ConvertTypes(d)), f)

-----------------------------------------------------------------------------
(* DataValidator *)

\* what pd.Timestamp.now() reads when a call starts; the posts of PostPool are
\* older
Now == 1000

\* REQUIRED_COLUMNS without the title
REQUIRED_COLUMNS_NoTitle == <<"id", "subreddit">>

REQUIRED_COLUMNS == <<"id", "title", "subreddit">>

\* EXPECTED_COLUMNS with the flair column among them
EXPECTED_COLUMNS_WithFlair ==
    <<"id", "subreddit", "title", "selftext", "score", "num_comments",
      "author", "created_utc", "upvote_ratio", "url", "permalink", "flair">>

EXPECTED_COLUMNS ==
    <<"id", "subreddit", "title", "selftext", "score", "num_comments",
      "author", "created_utc", "upvote_ratio", "url", "permalink">>

\* DataValidator(): the defaults of __init__; max_null_percentage in percent
DefaultConf == [min_rows |-> 1, max_null_percentage |-> 50, require_unique_ids |-> TRUE]

NoResult == [kind |-> "none"]

\* [x] if cond else []
Opt(cond, x) == IF cond THEN <<x>> ELSE <<>>

\* [c for c in cols if keep(c)]
Select(cols, Keep(_)) == SelectSeq2(cols, [i \in 1..Len(cols) |-> Keep(cols[i])])

Count(cells, P(_)) == Cardinality({i \in 1..Len(cells) : P(cells[i])})

\* f-string {pct:.2f} of count / total * 100, in hundredths of a percent
Pct2f(count, total) == (count * 20000 + total) \div (2 * total)

\* pd.api.types.is_string_dtype(series): an object column counts as string
\* only when every element is a string
IsStringDtype(d, c) ==
    d.dtype[c] = "object" /\ \A i \in 1..Len(d.rows) : d.rows[i][c].t = "str"

\* pd.api.types.is_numeric_dtype(series)
IsNumericDtype(d, c) == d.dtype[c] \in {"int64", "float64", "bool"}

\* IsValid tolerating one error
IsValidLenient(errors) == Len(errors) <= 1

\* line 99
IsValid(errors) == Len(errors) = 0

\* _validate_structure
ValidateStructure(d) ==
    IF IsEmpty(d)
    THEN [errors |-> <<<<"DataFrame is empty">>>>, warnings |-> <<>>, stats |-> <<>>]
    ELSE LET missing == Select(REQUIRED_COLUMNS, LAMBDA c : ~HasCol(d, c))
             unexpected == Select(d.cols, LAMBDA c : c \notin Range(EXPECTED_COLUMNS))
         IN [errors |->
                Opt(missing # <<>>, <<"Missing required columns: ", missing>>)
                \o Opt(HasCol(d, "score") /\ ~IsNumericDtype(d, "score"),
                       <<"Column 'score' should be numeric">>),
             warnings |->
                Opt(unexpected # <<>>, <<"Unexpected columns found: ", unexpected>>)
                \o Opt(HasCol(d, "id") /\ ~IsStringDtype(d, "id"),
                       <<"Column 'id' should be string type">>),
             stats |-> [total_rows |-> Len(d.rows), total_columns |-> Len(d.cols)]]

NullCount(d, c) == Count(Column(d, c), IsNull)

\* NullError firing as soon as the percentage reaches the ceiling
NullErrorAtCeiling(d, c, cfg) ==
    Opt(Len(d.rows) > 0 /\ Count(Column(d, c), IsNull) * 100 >= cfg.max_null_percentage * Len(d.rows),
        <<"Column '", c, "' has ", Pct2f(Count(Column(d, c), IsNull), Len(d.rows)),
          "% null values (max allowed: ", cfg.max_null_percentage, "%)">>)

\* lines 179-183, for one column: pct = nulls / len(df) * 100 compared with the
\* ceiling and with half of it (0 / 0 is nan, which compares false)
NullError(d, c, cfg) ==
    Opt(Len(d.rows) > 0 /\ NullCount(d, c) * 100 > cfg.max_null_percentage * Len(d.rows),
        <<"Column '", c, "' has ", Pct2f(NullCount(d, c), Len(d.rows)),
          "% null values (max allowed: ", cfg.max_null_percentage, "%)">>)

NullWarning(d, c, cfg) ==
    Opt(/\ Len(d.rows) > 0
        /\ ~(NullCount(d, c) * 100 > cfg.max_null_percentage * Len(d.rows))
        /\ NullCount(d, c) * 200 > cfg.max_null_percentage * Len(d.rows),
        <<"Column '", c, "' has ", Pct2f(NullCount(d, c), Len(d.rows)), "% null values">>)

\* NullErrors appending the error of a column twice
RECURSIVE NullErrorsRepeated(_, _, _)
NullErrorsRepeated(d, cols, cfg) ==
    IF cols = <<>> THEN <<>>
    ELSE NullError(d, Head(cols), cfg) \o NullError(d, Head(cols), cfg)
         \o NullErrorsRepeated(d, Tail(cols), cfg)

RECURSIVE NullErrors(_, _, _)
NullErrors(d, cols, cfg) ==
    IF cols = <<>> THEN <<>>
    ELSE NullError(d, Head(cols), cfg) \o NullErrors(d, Tail(cols), cfg)

RECURSIVE NullWarnings(_, _, _)
NullWarnings(d, cols, cfg) ==
    IF cols = <<>> THEN <<>>
    ELSE NullWarning(d, Head(cols), cfg) \o NullWarnings(d, Tail(cols), cfg)

\* DuplicateCount counting only the rows that repeat the id of the row before
DuplicateCountAdjacent(d) ==
    Cardinality({i \in 2..Len(d.rows) : d.rows[i]["id"] = d.rows[i - 1]["id"]})

\* line 168: df['id'].duplicated().sum()
DuplicateCount(d) == Count(Duplicated(Column(d, "id")), LAMBDA b : b)

\* line 187: (df['title'].astype(str).str.strip() == '').sum()
EmptyTitles(d) == Count(Column(d, "title"), LAMBDA c : Strip(ToStr(c).v) = <<>>)

\* _validate_quality
ValidateQuality(d, cfg) ==
    [errors |->
        Opt(Len(d.rows) < cfg.min_rows,
            <<"DataFrame has ", Len(d.rows), " rows, minimum required is ", cfg.min_rows>>)
        \o (IF HasCol(d, "id")
            THEN Opt(DuplicateCount(d) > 0 /\ cfg.require_unique_ids,
                     <<"Found ", DuplicateCount(d), " duplicate IDs">>)
            ELSE <<>>)
        \o NullErrors(d, d.cols, cfg)
        \o (IF HasCol(d, "title")
            THEN Opt(EmptyTitles(d) > 0, <<"Found ", EmptyTitles(d), " posts with empty titles">>)
            ELSE <<>>),
     warnings |->
        (IF HasCol(d, "id")
         THEN Opt(DuplicateCount(d) > 0 /\ ~cfg.require_unique_ids,
                  <<"Found ", DuplicateCount(d), " duplicate IDs">>)
         ELSE <<>>)
        \o NullWarnings(d, d.cols, cfg),
     stats |->
        IF HasCol(d, "id") THEN [duplicate_ids |-> DuplicateCount(d)] ELSE <<>>]

\* series < 0, series > 1 raise TypeError when an element of an object column
\* cannot be compared with a number (a string); a missing element (None, nan)
\* compares false
CompareRaises(d, c) ==
    HasCol(d, c) /\ \E i \in 1..Len(d.rows) : d.rows[i][c].t \in {"str", "date", "cat"}

Negative(c) == IsNumber(c) /\ c.v < 0

\* InvalidRatio taking the ends of the range for invalid
InvalidRatioOpen(c) == IsNumber(c) /\ (Val(c) <= 0 \/ Val(c) >= 100)

\* line 216: (df['upvote_ratio'] < 0) | (df['upvote_ratio'] > 1), for one cell;
\* floats are held in hundredths
InvalidRatio(c) == IsNumber(c) /\ (Val(c) < 0 \/ Val(c) > 100)

\* value_counts(): the distinct values that are not missing
SubredditCount(d) ==
    Cardinality({d.rows[i]["subreddit"] : i \in 1..Len(d.rows)}
                \ {None, NaN})

\* FutureDate taking a post for a future one until it is Now old
FutureDateSkewed(c, now) == c.t = "date" /\ c.v + Now > now

\* line 223: created_utc > pd.Timestamp.now(), for one cell (NaT compares false)
FutureDate(c, now) == c.t = "date" /\ c.v > now

\* _validate_business_rules, when no comparison raises; now is pd.Timestamp.now()
ValidateBusiness(d, now) ==
    LET negative_scores == Count(Column(d, "score"), Negative)
        negative_comments == Count(Column(d, "num_comments"), Negative)
        invalid_ratios == Count(Column(d, "upvote_ratio"), InvalidRatio)
        future_dates == Count(Column(d, "created_utc"), LAMBDA c : FutureDate(c, now))
    IN [errors |->
            (IF HasCol(d, "num_comments")
             THEN Opt(negative_comments > 0,
                      <<"Found ", negative_comments, " posts with negative comment counts">>)
             ELSE <<>>)
            \o (IF HasCol(d, "upvote_ratio")
                THEN Opt(invalid_ratios > 0,
                         <<"Found ", invalid_ratios, " posts with invalid upvote ratios">>)
                ELSE <<>>)
            \o (IF HasCol(d, "created_utc") /\ d.dtype["created_utc"] = "datetime64"
                THEN Opt(future_dates > 0, <<"Found ", future_dates, " posts with future dates">>)
                ELSE <<>>)
            \o (IF HasCol(d, "subreddit")
                THEN Opt(SubredditCount(d) = 0, <<"No subreddits found in data">>)
                ELSE <<>>),
        warnings |->
            (IF HasCol(d, "score")
             THEN Opt(negative_scores * 10 > Len(d.rows),
                      <<"High percentage of negative scores: ", negative_scores>>)
             ELSE <<>>)
            \o (IF HasCol(d, "subreddit")
                THEN Opt(SubredditCount(d) = 1, <<"Data contains posts from only one subreddit">>)
                ELSE <<>>),
        stats |->
            IF HasCol(d, "score") THEN [negative_scores |-> negative_scores] ELSE <<>>]

\* The dataset as each tier leaves it.  Every statement of the three tiers
\* reads df (df.empty, df.columns, df[c].duplicated(), df.isnull(),
\* df[c].astype(str), the comparisons, value_counts(), min(), max()), each of
\* which builds a new object; none assigns to df or to a column of it.
AfterStructure(d) == d

\* _validate_quality stripping the titles in place:
\* df['title'] = df['title'].astype(str).str.strip()
AfterQualityStrips(d) ==
    IF HasCol(d, "title") /\ Len(d.rows) > 0
    THEN MapCol(d, "title", LAMBDA c : Str(Strip(ToStr(c).v)), "object")
    ELSE d

AfterQuality(d) == d

AfterBusiness(d) == d

\* the dataset after validate has returned
AfterValidate(d) == AfterBusiness(AfterQuality(AfterStructure(d)))

\* the dataset after validate has raised: the comparison that raises is in
\* _validate_business_rules, the two tiers before it have run
AfterValidateRaised(d) == AfterQuality(AfterStructure(d))

\* lines 113-115: an exception of a tier makes validate raise DataValidationException
ValidateRaises(d) ==
    \E c \in {"score", "num_comments", "upvote_ratio"} : CompareRaises(d, c)

\* dict.update
Update(f, g) == [k \in DOMAIN f \cup DOMAIN g |-> IF k \in DOMAIN g THEN g[k] ELSE f[k]]

\* Validate stopping at the first tier that produced an error
ValidateShortCircuit(d, cfg, now) ==
    IF ValidateRaises(d)
    THEN [kind |-> "raise", type |-> "DataValidationException",
          msg |-> <<"Validation failed: ", "'<' not supported between instances">>]
    ELSE LET s == ValidateStructure(d)
             q == ValidateQuality(d, cfg)
             b == ValidateBusiness(d, now)
             errors == IF s.errors # <<>> THEN s.errors
                       ELSE IF q.errors # <<>> THEN q.errors
                       ELSE b.errors
         IN [kind |-> "result",
             is_valid |-> Len(errors) = 0,
             errors |-> errors,
             warnings |-> s.warnings \o q.warnings \o b.warnings,
             stats |-> Update(Update(s.stats, q.stats), b.stats)]

\* validate: the three tiers in order, their lists concatenated
Validate(d, cfg, now) ==
    IF ValidateRaises(d)
    THEN [kind |-> "raise", type |-> "DataValidationException",
          msg |-> <<"Validation failed: ", "'<' not supported between instances">>]
    ELSE LET s == ValidateStructure(d)
             q == ValidateQuality(d, cfg)
             b == ValidateBusiness(d, now)
             errors == s.errors \o q.errors \o b.errors
         IN [kind |-> "result",
             is_valid |-> IsValid(errors),
             errors |-> errors,
             warnings |-> s.warnings \o q.warnings \o b.warnings,
             stats |-> Update(Update(s.stats, q.stats), b.stats)]

\* str(dtype) contains expected_type (line 265), for the type names used
TypeNameIn(expected, actual) ==
    \/ expected = actual
    \/ expected = "int" /\ actual = "int64"
    \/ expected = "float" /\ actual = "float64"
    \/ expected = "datetime" /\ actual = "datetime64"
    \/ expected = "64" /\ actual \in {"int64", "float64", "datetime64"}

\* validate_schema; expected_schema as the sequence of its (column, type) items
RECURSIVE SchemaErrors(_, _)
SchemaErrors(d, schema) ==
    IF schema = <<>> THEN <<>>
    ELSE Opt(~HasCol(d, Head(schema)[1]), <<"Missing column: ", Head(schema)[1]>>)
         \o SchemaErrors(d, Tail(schema))

RECURSIVE SchemaWarnings(_, _)
SchemaWarnings(d, schema) ==
    IF schema = <<>> THEN <<>>
    ELSE LET col == Head(schema)[1]
             expected == Head(schema)[2]
         IN Opt(HasCol(d, col) /\ ~TypeNameIn(expected, d.dtype[col]),
                <<"Column '", col, "' has type ", d.dtype[col], ", expected ", expected>>)
            \o SchemaWarnings(d, Tail(schema))

ValidateSchema(d, schema) ==
    [kind |-> "result",
     is_valid |-> IsValid(SchemaErrors(d, schema)),
     errors |-> SchemaErrors(d, schema),
     warnings |-> SchemaWarnings(d, schema),
     stats |-> <<>>]

-----------------------------------------------------------------------------
(* RedditPipeline.run *)

NoOutcome == [kind |-> "none"]
NoException == [type |-> "none", msg |-> <<>>]
NoFile == [state |-> "absent", nrows |-> 0]

\* config.paths.output_path / f"{filename}.csv"
OutputPath == "output/reddit.csv"

Last(s) == s[Len(s)]

SubredditName(i) == <<"r", Digit(i)>>

SubredditLists == {[i \in 1..n |-> SubredditName(i)] : n \in 0..MaxSubreddits}

Init ==
    /\ pc = "init"
    /\ subreddits \in SubredditLists
    /\ validate \in BOOLEAN
    /\ transform \in BOOLEAN
    /\ idx = 0
    /\ all_posts = <<>>
    /\ fetched = <<>>
    /\ df = EmptyFrame
    /\ vresult = NoResult
    /\ outcome = NoOutcome
    /\ file = NoFile
    /\ hist = <<>>
    /\ caught = NoException
    /\ arg = EmptyFrame
    /\ conf = DefaultConf
    /\ clock = Now
    /\ prev = NoResult

\* RunFailure letting the exception through as it is
RunFailureBare(e) == [kind |-> "raise", type |-> e.type, msg |-> e.msg]

\* lines 103-105: what run raises for an exception e caught in its body
RunFailure(e) ==
    [kind |-> "raise", type |-> "RedditPipelineException",
     msg |-> <<"Pipeline execution failed: ">> \o e.msg]

\* Blocks never raising
BlocksNever(r) == FALSE

\* Blocks raising only for several errors
BlocksSeveral(r) == ~r.is_valid /\ Len(r.errors) > 1

\* Blocks raising for warnings too
BlocksOnWarnings(r) == (~r.is_valid /\ r.errors # <<>>) \/ r.warnings # <<>>

\* lines 82-87: the validation result that makes run raise
Blocks(r) == ~r.is_valid /\ r.errors # <<>>

\* extract_posts_batch, line 170: the default of the pacing delay, in seconds;
\* run does not pass another one (reddit_pipeline.py:60-65)
delay_between_subreddits == 1

\* line 60: run calls extract_posts_batch
RunStart ==
    /\ pc = "init"
    /\ pc' = "batch"
    /\ idx' = 1
    /\ hist' = Append(hist, "extract")
    /\ UNCHANGED <<inputs, clock, prev, caught, all_posts, fetched, df, vresult, outcome, file>>

\* extract_posts_batch, lines 187-199: extract_posts returns the posts of the
\* subreddit; they are appended, the loop sleeps for the pacing delay
\* (time.sleep, lines 198-199) and goes on
FetchOk ==
    /\ pc = "batch"
    /\ idx <= Len(subreddits)
    /\ \E posts \in SeqsUpTo(PostPool, MaxRows - Len(all_posts)) :
          /\ all_posts' = all_posts \o posts
          /\ fetched' = Append(fetched, [subreddit |-> subreddits[idx], ok |-> TRUE,
                                         posts |-> posts,
                                         slept |-> delay_between_subreddits > 0])
    /\ idx' = idx + 1
    /\ UNCHANGED <<inputs, clock, prev, caught, pc, df, vresult, outcome, file, hist>>

\* FetchFail leaving the loop instead of continuing it
FetchFailStops ==
    /\ pc = "batch"
    /\ idx <= Len(subreddits)
    /\ fetched' = Append(fetched, [subreddit |-> subreddits[idx], ok |-> FALSE,
                                   posts |-> <<>>, slept |-> FALSE])
    /\ idx' = Len(subreddits) + 1
    /\ UNCHANGED <<inputs, clock, prev, caught, pc, all_posts, df, vresult, outcome, file, hist>>

\* FetchFail fetching the same subreddit again after the failure
FetchFailRetried ==
    /\ pc = "batch"
    /\ idx <= Len(subreddits)
    /\ Len(fetched) <= MaxSubreddits
    /\ fetched' = Append(fetched, [subreddit |-> subreddits[idx], ok |-> FALSE,
                                   posts |-> <<>>, slept |-> FALSE])
    /\ UNCHANGED <<inputs, clock, prev, caught, pc, idx, all_posts, df, vresult, outcome, file,
                   hist>>

\* extract_posts_batch, lines 201-203: extract_posts raises (RedditAPIException);
\* the error is logged and the loop continues with the next subreddit; the
\* sleep of lines 198-199 is in the try block after the call and is skipped
FetchFail ==
    /\ pc = "batch"
    /\ idx <= Len(subreddits)
    /\ fetched' = Append(fetched, [subreddit |-> subreddits[idx], ok |-> FALSE,
                                   posts |-> <<>>, slept |-> FALSE])
    /\ idx' = idx + 1
    /\ UNCHANGED <<inputs, clock, prev, caught, pc, all_posts, df, vresult, outcome, file, hist>>

\* extract_posts_batch, lines 205-211: the loop is over, the DataFrame is returned
BatchReturn ==
    /\ pc = "batch"
    /\ idx > Len(subreddits)
    /\ df' = BatchResult(all_posts)
    /\ pc' = "extracted"
    /\ UNCHANGED <<inputs, clock, prev, caught, idx, all_posts, fetched, vresult, outcome, file,
                   hist>>

\* lines 103-105: the exception e is caught and run raises
Fail(e) ==
    /\ caught' = e
    /\ outcome' = RunFailure(e)
    /\ pc' = "failed"

\* RunNoData without the emptiness check: the run goes on
RunNoDataProceeds ==
    /\ pc = "extracted"
    /\ IsEmpty(df)
    /\ pc' = "transform"
    /\ UNCHANGED <<inputs, clock, prev, caught, idx, all_posts, fetched, df, vresult, outcome,
                   file, hist>>

\* lines 67-68
RunNoData ==
    /\ pc = "extracted"
    /\ IsEmpty(df)
    /\ Fail([type |-> "RedditPipelineException", msg |-> <<"No data extracted from Reddit">>])
    /\ UNCHANGED <<inputs, clock, prev, idx, all_posts, fetched, df, vresult, file, hist>>

\* line 70
RunExtracted ==
    /\ pc = "extracted"
    /\ ~IsEmpty(df)
    /\ pc' = "transform"
    /\ UNCHANGED <<inputs, clock, prev, caught, idx, all_posts, fetched, df, vresult, outcome,
                   file, hist>>

\* line 73, transform is false
RunSkipTransform ==
    /\ pc = "transform"
    /\ ~transform
    /\ pc' = "validate"
    /\ UNCHANGED <<inputs, clock, prev, caught, idx, all_posts, fetched, df, vresult, outcome,
                   file, hist>>

\* lines 73-75
RunTransform ==
    /\ pc = "transform"
    /\ transform
    /\ df' = TransformRedditPosts(df)
    /\ hist' = Append(hist, "transform")
    /\ pc' = "validate"
    /\ UNCHANGED <<inputs, clock, prev, caught, idx, all_posts, fetched, vresult, outcome, file>>

\* RunTransformRaise with the exception swallowed: the run goes on to validate
RunTransformRaiseSwallowed ==
    /\ pc = "transform"
    /\ transform
    /\ TransformMayRaise(df)
    /\ hist' = Append(hist, "transform")
    /\ caught' = [type |-> "ProcessingException",
                  msg |-> <<"Data transformation failed: ",
                            "Can only use .str accessor with string values!">>]
    /\ pc' = "validate"
    /\ UNCHANGED <<inputs, clock, prev, idx, all_posts, fetched, df, vresult, outcome, file>>

\* lines 73-75, transform_reddit_posts raises ProcessingException
RunTransformRaise ==
    /\ pc = "transform"
    /\ transform
    /\ TransformMayRaise(df)
    /\ hist' = Append(hist, "transform")
    /\ Fail([type |-> "ProcessingException",
             msg |-> <<"Data transformation failed: ",
                       "Can only use .str accessor with string values!">>])
    /\ UNCHANGED <<inputs, clock, prev, idx, all_posts, fetched, df, vresult, file>>

\* line 78, validate is false
RunSkipValidate ==
    /\ pc = "validate"
    /\ ~validate
    /\ pc' = "save"
    /\ UNCHANGED <<inputs, clock, prev, caught, idx, all_posts, fetched, df, vresult, outcome,
                   file, hist>>

\* lines 78-90, the result does not make run raise
RunValidate ==
    /\ pc = "validate"
    /\ validate
    /\ LET r == Validate(df, conf, clock) IN
          /\ r.kind = "result"
          /\ ~Blocks(r)
          /\ vresult' = r
    /\ hist' = Append(hist, "validate")
    /\ pc' = "save"
    /\ UNCHANGED <<inputs, clock, prev, caught, idx, all_posts, fetched, df, outcome, file>>

\* lines 78-87, the result has errors
RunValidateReject ==
    /\ pc = "validate"
    /\ validate
    /\ LET r == Validate(df, conf, clock) IN
          /\ r.kind = "result"
          /\ Blocks(r)
          /\ vresult' = r
          /\ Fail([type |-> "RedditPipelineException",
                   msg |-> <<"Data validation failed: ", r.errors>>])
    /\ hist' = Append(hist, "validate")
    /\ UNCHANGED <<inputs, clock, prev, idx, all_posts, fetched, df, file>>

\* line 80, validate raises DataValidationException
RunValidateRaise ==
    /\ pc = "validate"
    /\ validate
    /\ LET r == Validate(df, conf, clock) IN
          /\ r.kind = "raise"
          /\ Fail(r)
    /\ hist' = Append(hist, "validate")
    /\ UNCHANGED <<inputs, clock, prev, idx, all_posts, fetched, df, vresult, file>>

\* _save_dataframe, lines 118-126: creating the directory or opening the file
\* fails; nothing is written
SaveOpenFail ==
    /\ pc = "save"
    /\ hist' = Append(hist, "persist")
    /\ Fail([type |-> "OSError", msg |-> <<"[Errno 13] Permission denied: ", OutputPath>>])
    /\ UNCHANGED <<inputs, clock, prev, idx, all_posts, fetched, df, vresult, file>>

\* _save_dataframe, line 126: to_csv opens output_path for writing; the file
\* exists from then on
SaveOpen ==
    /\ pc = "save"
    /\ hist' = Append(hist, "persist")
    /\ file' = [state |-> "partial", nrows |-> 0]
    /\ pc' = "writing"
    /\ UNCHANGED <<inputs, clock, prev, caught, idx, all_posts, fetched, df, vresult, outcome>>

\* to_csv writes the next row of the exported frame
SaveWrite ==
    /\ pc = "writing"
    /\ file.nrows < Len(df.rows)
    /\ file' = [file EXCEPT !.nrows = @ + 1]
    /\ UNCHANGED <<inputs, clock, prev, caught, pc, idx, all_posts, fetched, df, vresult, outcome,
                   hist>>

\* to_csv fails while writing (the disk is full): the exception leaves
\* _save_dataframe, which has no handler, and what was written stays in place
SaveWriteFail ==
    /\ pc = "writing"
    /\ Fail([type |-> "OSError", msg |-> <<"[Errno 28] No space left on device">>])
    /\ UNCHANGED <<inputs, clock, prev, idx, all_posts, fetched, df, vresult, file, hist>>

\* lines 126-129 and 100-101: every row is written, the file is closed and run
\* returns its path
SaveDone ==
    /\ pc = "writing"
    /\ file.nrows = Len(df.rows)
    /\ file' = [file EXCEPT !.state = "complete"]
    /\ outcome' = [kind |-> "return", value |-> OutputPath]
    /\ pc' = "done"
    /\ UNCHANGED <<inputs, clock, prev, caught, idx, all_posts, fetched, df, vresult, hist>>

Next ==
    \/ RunStart
    \/ FetchOk
    \/ FetchFail
    \/ BatchReturn
    \/ RunNoData
    \/ RunExtracted
    \/ RunSkipTransform
    \/ RunTransform
    \/ RunTransformRaise
    \/ RunSkipValidate
    \/ RunValidate
    \/ RunValidateReject
    \/ RunValidateRaise
    \/ SaveOpenFail
    \/ SaveOpen
    \/ SaveWrite
    \/ SaveWriteFail
    \/ SaveDone

Spec == Init /\ [][Next]_vars

-----------------------------------------------------------------------------
(* The transformer's functions called on their own, as the unit tests call   *)
(* them (tests/test_data_transformer.py), on frames built from raw records.  *)

RawColumns == <<"id", "subreddit", "title", "score", "num_comments">>

RawRow(id, subreddit, title, score, num_comments) ==
    [c \in Range(RawColumns) |->
        CASE c = "id" -> id
          [] c = "subreddit" -> subreddit
          [] c = "title" -> title
          [] c = "score" -> score
          [] c = "num_comments" -> num_comments]

\* Raw records: a plain one, a second one with the same id, one whose title is
\* blank and whose counters are negative, one whose fields could not be read,
\* one holding nan and a numeric string, one with an empty title
RawRowPool ==
    {RawRow(Str(<<"a">>), Str(<<"r">>), Str(<<"H", "i">>), Num(5), Num(1)),
     RawRow(Str(<<"a">>), Str(<<"q">>), Str(<<"Y", "o">>), Num(700), Num(0)),
     RawRow(Str(<<"b">>), Str(<<"r">>), Str(<<" ">>), Num(-1), Num(-2)),
     RawRow(None, None, None, None, None),
     RawRow(NaN, Str(<<"r">>), Str(s_nan), Str(<<"1", "2">>), Num(3)),
     RawRow(Str(<<"c">>), Str(<<"q">>), Str(<<>>), Num(0), Num(3))}

RawFrames ==
    {FromRecords(rows, RawColumns) : rows \in SeqsUpTo(RawRowPool, MaxFrameRows)}
    \cup {EmptyFrame}

InitCall ==
    /\ pc = "call"
    /\ subreddits = <<>>
    /\ validate = TRUE
    /\ transform = TRUE
    /\ idx = 0
    /\ all_posts = <<>>
    /\ fetched = <<>>
    /\ df = EmptyFrame
    /\ vresult = NoResult
    /\ outcome = NoOutcome
    /\ file = NoFile
    /\ hist = <<>>
    /\ caught = NoException
    /\ clock = Now
    /\ prev = NoResult

\* a frame without one of its columns
DropColumn(d, c) ==
    LET names == Range(d.cols) \ {c} IN
    [cols |-> SelectSeq2(d.cols, [i \in 1..Len(d.cols) |-> d.cols[i] # c]),
     dtype |-> [n \in names |-> d.dtype[n]],
     rows |-> [i \in 1..Len(d.rows) |-> [n \in names |-> d.rows[i][n]]]]

\* records whose scores are at and next to the breakpoints of the popularity
\* bins, and one without a score
ScoreRowPool ==
    {RawRow(Str(<<"a">>), Str(<<"r">>), Str(<<"H", "i">>), Num(-1), Num(1)),
     RawRow(Str(<<"b">>), Str(<<"r">>), Str(<<"H", "i">>), Num(0), Num(1)),
     RawRow(Str(<<"c">>), Str(<<"r">>), Str(<<"H", "i">>), Num(1), Num(1)),
     RawRow(Str(<<"d">>), Str(<<"r">>), Str(<<"H", "i">>), Num(10), Num(1)),
     RawRow(Str(<<"e">>), Str(<<"r">>), Str(<<"H", "i">>), Num(11), Num(1)),
     RawRow(Str(<<"f">>), Str(<<"r">>), Str(<<"H", "i">>), Num(100), Num(1)),
     RawRow(Str(<<"g">>), Str(<<"r">>), Str(<<"H", "i">>), Num(101), Num(1)),
     RawRow(Str(<<"h">>), Str(<<"r">>), Str(<<"H", "i">>), Num(1000), Num(1)),
     RawRow(Str(<<"i">>), Str(<<"r">>), Str(<<"H", "i">>), Num(1001), Num(1)),
     RawRow(Str(<<"j">>), Str(<<"r">>), Str(<<"H", "i">>), None, Num(1))}

ScoreFrames ==
    {FromRecords(rows, RawColumns) : rows \in SeqsUpTo(ScoreRowPool, MaxRows) \ {<<>>}}

\* frames given to the transformer: raw ones, raw ones without an id column,
\* and the frames of scores
TransformFrames ==
    RawFrames \cup {DropColumn(f, "id") : f \in RawFrames \ {EmptyFrame}} \cup ScoreFrames

InitTransform ==
    /\ InitCall
    /\ arg \in TransformFrames
    /\ conf = DefaultConf

\* transform_reddit_posts(arg) returns; it works on a copy, arg is not changed
CallTransform ==
    /\ pc = "call"
    /\ df' = TransformRedditPosts(arg)
    /\ outcome' = [kind |-> "return", value |-> "df"]
    /\ pc' = "transform_returned"
    /\ UNCHANGED <<inputs, clock, prev, caught, idx, all_posts, fetched, vresult, file, hist>>

\* transform_reddit_posts(arg) raises ProcessingException
CallTransformRaise ==
    /\ pc = "call"
    /\ TransformMayRaise(arg)
    /\ outcome' = [kind |-> "raise", type |-> "ProcessingException",
                   msg |-> <<"Data transformation failed: ",
                             "Can only use .str accessor with string values!">>]
    /\ pc' = "transform_raised"
    /\ UNCHANGED <<inputs, clock, prev, caught, idx, all_posts, fetched, df, vresult, file, hist>>

\* _remove_duplicates(arg) returns
CallRemoveDuplicates ==
    /\ pc = "call"
    /\ df' = RemoveDuplicates(arg)
    /\ outcome' = [kind |-> "return", value |-> "df"]
    /\ pc' = "dedup_returned"
    /\ UNCHANGED <<inputs, clock, prev, caught, idx, all_posts, fetched, vresult, file, hist>>

\* _remove_duplicates called on what _remove_duplicates returned
CallRemoveDuplicatesAgain ==
    /\ pc = "dedup_returned"
    /\ prev' = df
    /\ df' = RemoveDuplicates(df)
    /\ pc' = "dedup_again"
    /\ UNCHANGED <<inputs, clock, caught, idx, all_posts, fetched, vresult, outcome, file, hist>>

\* validate called on what transform_reddit_posts returned, as run does with
\* transform=true (reddit_pipeline.py:73-80); the result or the exception is
\* kept in vresult
CallValidateTransformed ==
    /\ pc = "transform_returned"
    /\ vresult' = Validate(df, conf, clock)
    /\ pc' = "transformed_validated"
    /\ UNCHANGED <<inputs, clock, prev, caught, idx, all_posts, fetched, df, outcome, file, hist>>

NextTransform ==
    \/ CallTransform
    \/ CallValidateTransformed
    \/ CallTransformRaise
    \/ CallRemoveDuplicates
    \/ CallRemoveDuplicatesAgain

SpecTransform == InitTransform /\ [][NextTransform]_vars

-----------------------------------------------------------------------------
(* The validator's functions called on their own *)

\* frames given to the validator: raw ones, transformed ones, raw ones
\* without their title column, dated ones, dated ones without their id and
\* subreddit columns, and the sparse one
\* records with a creation time: one created before Now, one created after
\* it, one created long after it, one whose time could not be read
DatedColumns == <<"id", "subreddit", "title", "created_utc">>

DatedRow(id, created_utc) ==
    [c \in Range(DatedColumns) |->
        CASE c = "id" -> id
          [] c = "subreddit" -> Str(<<"r">>)
          [] c = "title" -> Str(<<"T">>)
          [] c = "created_utc" -> created_utc]

DatedRowPool ==
    {DatedRow(Str(<<"a">>), Num(Now \div 2)),
     DatedRow(Str(<<"b">>), Num(Now + Now \div 2)),
     DatedRow(Str(<<"d">>), Num(Now + 2 * MaxElapsed)),
     DatedRow(Str(<<"c">>), None)}

\* frames of dated records, as extracted and as transformed (created_utc a
\* datetime column)
DatedFrames ==
    LET raw == {FromRecords(rows, DatedColumns) :
                   rows \in SeqsUpTo(DatedRowPool, MaxRows) \ {<<>>}}
    IN raw \cup {TransformRedditPosts(f) : f \in raw}

\* a frame of five records, three of them without a comment count: 60% nulls
SparseFrame ==
    FromRecords(
        <<RawRow(Str(<<"a">>), Str(<<"r">>), Str(<<"H", "i">>), Num(5), Num(1)),
          RawRow(Str(<<"b">>), Str(<<"r">>), Str(<<"H", "i">>), Num(5), None),
          RawRow(Str(<<"c">>), Str(<<"q">>), Str(<<"Y", "o">>), Num(5), None),
          RawRow(Str(<<"d">>), Str(<<"q">>), Str(<<"Y", "o">>), Num(5), None),
          RawRow(Str(<<"e">>), Str(<<"q">>), Str(<<"Y", "o">>), Num(5), Num(2))>>,
        RawColumns)

RatioColumns == <<"id", "subreddit", "title", "num_comments", "upvote_ratio">>

RatioRow(id, num_comments, upvote_ratio) ==
    [c \in Range(RatioColumns) |->
        CASE c = "id" -> id
          [] c = "subreddit" -> Str(<<"r">>)
          [] c = "title" -> Str(<<"T">>)
          [] c = "num_comments" -> num_comments
          [] c = "upvote_ratio" -> upvote_ratio]

\* records with comment counts and upvote ratios at, inside and outside the
\* ends of their ranges
RatioRowPool ==
    {RatioRow(Str(<<"a">>), Num(0), Flt(0)),
     RatioRow(Str(<<"b">>), Num(1), Flt(100)),
     RatioRow(Str(<<"c">>), Num(-1), Flt(50)),
     RatioRow(Str(<<"d">>), Num(2), Flt(101)),
     RatioRow(Str(<<"e">>), Num(3), Flt(-1))}

RatioFrames ==
    {FromRecords(rows, RatioColumns) : rows \in SeqsUpTo(RatioRowPool, MaxRows) \ {<<>>}}

ValidatorFrames ==
    RawFrames
    \cup RatioFrames
    \cup {TransformRedditPosts(f) : f \in RawFrames}
    \cup {DropColumn(f, "title") : f \in RawFrames \ {EmptyFrame}}
    \cup DatedFrames
    \cup {DropColumn(DropColumn(f, "id"), "subreddit") : f \in DatedFrames}
    \cup {SparseFrame}

ValidatorConfs ==
    [min_rows : {1, 2}, max_null_percentage : {50, 70}, require_unique_ids : BOOLEAN]

\* expected_schema arguments of validate_schema
Schemas ==
    {<<>>,
     <<<<"id", "object">>, <<"score", "int64">>>>,
     <<<<"score", "float">>, <<"created_utc", "datetime">>>>}

InitValidate ==
    /\ InitCall
    /\ arg \in ValidatorFrames
    /\ conf \in ValidatorConfs

\* what DataValidator.validate leaves alone: everything but its argument
validate_frame ==
    <<subreddits, validate, transform, conf, caught, idx, all_posts, fetched, df, file, hist>>

\* validate(arg) returns its ValidationResult
CallValidate ==
    /\ pc = "call"
    /\ Validate(arg, conf, clock).kind = "result"
    /\ vresult' = Validate(arg, conf, clock)
    /\ arg' = AfterValidate(arg)
    /\ outcome' = [kind |-> "return", value |-> "result"]
    /\ pc' = "validate_returned"
    /\ UNCHANGED <<validate_frame, clock, prev>>

\* time passes between two calls of validate
Tick ==
    /\ pc = "validate_returned"
    /\ clock < Now + MaxElapsed
    /\ clock' = Now + MaxElapsed
    /\ UNCHANGED <<inputs, prev, caught, pc, idx, all_posts, fetched, df, vresult, outcome,
                   file, hist>>

\* validate(arg) called again on the same dataset returns its ValidationResult
CallValidateAgain ==
    /\ pc = "validate_returned"
    /\ Validate(arg, conf, clock).kind = "result"
    /\ prev' = vresult
    /\ vresult' = Validate(arg, conf, clock)
    /\ arg' = AfterValidate(arg)
    /\ pc' = "validate_again"
    /\ UNCHANGED <<validate_frame, clock, outcome>>

\* validate(arg) raises DataValidationException
CallValidateRaise ==
    /\ pc = "call"
    /\ Validate(arg, conf, clock).kind = "raise"
    /\ outcome' = Validate(arg, conf, clock)
    /\ arg' = AfterValidateRaised(arg)
    /\ pc' = "validate_raised"
    /\ UNCHANGED <<validate_frame, clock, prev, vresult>>

\* validate_schema(arg, expected_schema) returns its ValidationResult
CallValidateSchema ==
    /\ pc = "call"
    /\ \E schema \in Schemas : vresult' = ValidateSchema(arg, schema)
    /\ outcome' = [kind |-> "return", value |-> "result"]
    /\ pc' = "schema_returned"
    /\ UNCHANGED <<inputs, clock, prev, caught, idx, all_posts, fetched, df, file, hist>>

\* df[c] = cells: the frame with one more column, its dtype inferred
AddColumn(d, c, cells) ==
    LET names == Range(d.cols) \cup {c}
        dt == InferDtype(cells)
    IN [cols |-> d.cols \o <<c>>,
        dtype |-> [n \in names |-> IF n = c THEN dt ELSE d.dtype[n]],
        rows |-> [i \in 1..Len(d.rows) |->
                    [n \in names |-> IF n = c THEN Coerce(cells[i], dt) ELSE d.rows[i][n]]]]

\* a column name outside EXPECTED_COLUMNS
ExtraColumn == "flair"

\* the values of the added column: all null, none null, only the first null
ExtraCells(n) ==
    {[i \in 1..n |-> None],
     [i \in 1..n |-> Str(<<"x">>)],
     [i \in 1..n |-> IF i = 1 THEN None ELSE Str(<<"x">>)]}

\* a dataset found valid is given a column the validator does not expect and
\* validate is called on the wider dataset, which df then holds
CallValidateWidened ==
    /\ pc = "validate_returned"
    /\ vresult.is_valid
    /\ \E cells \in ExtraCells(Len(arg.rows)) :
          LET wide == AddColumn(arg, ExtraColumn, cells) IN
          /\ Validate(wide, conf, clock).kind = "result"
          /\ df' = wide
          /\ vresult' = Validate(wide, conf, clock)
    /\ prev' = vresult
    /\ pc' = "validate_widened"
    /\ UNCHANGED <<inputs, clock, caught, idx, all_posts, fetched, outcome, file, hist>>

NextValidate ==
    \/ CallValidate
    \/ CallValidateWidened
    \/ CallValidateRaise
    \/ CallValidateSchema
    \/ Tick
    \/ CallValidateAgain

SpecValidate == InitValidate /\ [][NextValidate]_vars

-----------------------------------------------------------------------------
(* The extractor's functions called on their own *)

\* An attribute of a PRAW submission as getattr meets it: absent, raising when
\* it is read (a lazy load that fails), or holding a value
Missing == [k |-> "missing"]
Raising == [k |-> "raises"]
Value(v) == [k |-> "value", v |-> v]

\* a Redditor object; str() of it gives its name, or raises when it is broken
Redditor(name, broken) == [t |-> "Redditor", name |-> name, broken |-> broken]

\* the result of a step that may raise
Ok(v) == [kind |-> "value", v |-> v]
Raised == [kind |-> "raise"]

\* bool(value)
Truthy(c) ==
    CASE c.t = "None" -> FALSE
      [] c.t \in {"int", "float"} -> c.v # 0
      [] c.t = "str" -> c.v # <<>>
      [] c.t = "bool" -> c.v
      [] OTHER -> TRUE

\* line 156: str(value) of the author
StrOf(c) ==
    CASE c.t = "Redditor" -> IF c.broken THEN Raised ELSE Ok(Str(c.name))
      [] OTHER -> Ok(ToStr(c))

\* line 158: int(value); a float is truncated, a string is parsed
IntOf(c) ==
    CASE c.t = "int" -> Ok(c)
      [] c.t = "float" -> Ok(Num(c.v \div 100))
      [] c.t = "bool" -> Ok(Num(IF c.v THEN 1 ELSE 0))
      [] c.t = "str" -> IF IsDigits(c.v) THEN Ok(Num(ParseNat(c.v))) ELSE Raised
      [] OTHER -> Raised

\* lines 153-159: the body of the try, for one field
FieldValue(item, field) ==
    IF item[field].k = "raises" THEN Raised
    ELSE LET value == IF item[field].k = "missing" THEN None ELSE item[field].v IN
         IF field = "author" /\ Truthy(value) THEN StrOf(value)
         ELSE IF field = "created_utc"
              THEN (IF Truthy(value) THEN IntOf(value) ELSE Ok(None))
              ELSE Ok(value)

\* ExtractPostFields without the try of lines 152-162: a field that raises
\* makes the call raise
ExtractPostFieldsUnguarded(item) ==
    IF \E f \in Range(POST_FIELDS) : FieldValue(item, f).kind = "raise"
    THEN [kind |-> "raise", type |-> "Exception", msg |-> <<"field">>]
    ELSE [kind |-> "return", value |-> [f \in Range(POST_FIELDS) |-> FieldValue(item, f).v]]

\* _extract_post_fields: a field whose try raises is set to None (lines 160-162)
ExtractPostFields(item) ==
    [kind |-> "return",
     value |-> [f \in Range(POST_FIELDS) |->
                  IF FieldValue(item, f).kind = "raise" THEN None ELSE FieldValue(item, f).v]]

\* a submission, by the attributes that vary in the items checked
Item(id, author, created_utc, score) ==
    [f \in Range(POST_FIELDS) |->
        CASE f = "id" -> id
          [] f = "author" -> author
          [] f = "created_utc" -> created_utc
          [] f = "score" -> score
          [] f = "distinguished" -> Missing
          [] f \in {"is_self", "over_18", "stickied"} -> Value(Bool(FALSE))
          [] f \in {"num_comments", "upvote_ratio"} -> Value(Num(1))
          [] OTHER -> Value(Str(<<"x">>))]

IdAttrs == {Missing, Raising, Value(Str(<<"a">>))}

AuthorAttrs ==
    {Missing, Raising, Value(None), Value(Redditor(<<"u">>, FALSE)),
     Value(Redditor(<<"u">>, TRUE))}

CreatedAttrs ==
    {Missing, Raising, Value(Flt(100 * Now + 50)), Value(Num(0)), Value(Str(<<"x">>))}

ScoreAttrs == {Missing, Value(Num(5))}

Items ==
    {Item(id, author, created_utc, score) :
        id \in IdAttrs, author \in AuthorAttrs, created_utc \in CreatedAttrs,
        score \in ScoreAttrs}

\* the sort methods extract_posts dispatches on (lines 101-108)
SortMethods == {"top", "hot", "new", "rising"}

\* extract_posts(subreddit, sort=...) against a source that serves the listing
\* ("up"), answers with an API error ("down": a PrawcoreException) or fails in
\* another way ("broken").  reddit.subreddit() and the listing methods build
\* lazy objects; the request is made when the listing is iterated (line 113).
\* The result holds the requests made, and what the call returns or raises.
ExtractPosts(call) ==
    IF call.sort \notin SortMethods
    THEN [requests |-> <<>>,
          outcome |-> [kind |-> "raise", type |-> "RedditAPIException",
                       msg |-> <<"Post extraction failed: ", "Invalid sort method: ", call.sort>>]]
    ELSE LET request == <<[subreddit |-> call.subreddit, sort |-> call.sort]>> IN
         CASE call.source = "down" ->
                [requests |-> request,
                 outcome |-> [kind |-> "raise", type |-> "RedditAPIException",
                              msg |-> <<"Reddit API error: ", "received 503 HTTP response">>]]
           [] call.source = "broken" ->
                [requests |-> request,
                 outcome |-> [kind |-> "raise", type |-> "RedditAPIException",
                              msg |-> <<"Post extraction failed: ", "Connection reset">>]]
           [] OTHER ->
                [requests |-> request,
                 outcome |-> [kind |-> "return",
                              value |-> [i \in 1..Len(call.items) |->
                                            ExtractPostFields(call.items[i]).value]]]

\* the submissions a listing serves in the calls checked
ListedItems ==
    {Item(Value(Str(<<"a">>)), Value(Redditor(<<"u">>, FALSE)), Value(Flt(100 * Now)), Value(Num(5))),
     Item(Value(Str(<<"b">>)), Value(None), Missing, Value(Num(5))),
     Item(Raising, Raising, Raising, Missing)}

Calls ==
    [kind : {"call"},
     subreddit : {SubredditName(1)},
     sort : SortMethods \cup {"best"},
     source : {"up", "down", "broken"},
     items : SeqsUpTo(ListedItems, MaxRows)]

InitExtract ==
    /\ InitCall
    /\ arg \in {[kind |-> "item", attrs |-> item] : item \in Items} \cup Calls
    /\ conf = DefaultConf

\* _extract_post_fields(arg) returns its record, or raises
CallExtractPostFields ==
    /\ pc = "call"
    /\ arg.kind = "item"
    /\ LET r == ExtractPostFields(arg.attrs) IN
          /\ all_posts' = IF r.kind = "return" THEN <<r.value>> ELSE all_posts
          /\ outcome' = IF r.kind = "return" THEN [kind |-> "return", value |-> "post_dict"] ELSE r
          /\ pc' = IF r.kind = "return" THEN "fields_returned" ELSE "fields_raised"
    /\ UNCHANGED <<inputs, clock, prev, caught, idx, fetched, df, vresult, file, hist>>

\* extract_posts(arg.subreddit, sort=arg.sort) returns its list of records
CallExtractPosts ==
    /\ pc = "call"
    /\ arg.kind = "call"
    /\ ExtractPosts(arg).outcome.kind = "return"
    /\ fetched' = fetched \o ExtractPosts(arg).requests
    /\ all_posts' = ExtractPosts(arg).outcome.value
    /\ outcome' = [kind |-> "return", value |-> "post_list"]
    /\ pc' = "posts_returned"
    /\ UNCHANGED <<inputs, clock, prev, caught, idx, df, vresult, file, hist>>

\* extract_posts(arg.subreddit, sort=arg.sort) raises
CallExtractPostsRaise ==
    /\ pc = "call"
    /\ arg.kind = "call"
    /\ ExtractPosts(arg).outcome.kind = "raise"
    /\ fetched' = fetched \o ExtractPosts(arg).requests
    /\ outcome' = ExtractPosts(arg).outcome
    /\ pc' = "posts_raised"
    /\ UNCHANGED <<inputs, clock, prev, caught, idx, all_posts, df, vresult, file, hist>>

NextExtract ==
    \/ CallExtractPostFields
    \/ CallExtractPosts
    \/ CallExtractPostsRaise

SpecExtract == InitExtract /\ [][NextExtract]_vars

-----------------------------------------------------------------------------
(* extract_posts_streaming called alone: the generator and its consumer.
   arg is the call, idx the position in the listing, all_posts the batch being
   filled and fetched the batches yielded so far. *)

StreamItems ==
    {Item(Value(Str(<<"a">>)), Value(Redditor(<<"u">>, FALSE)), Value(Flt(100 * Now)), Value(Num(5))),
     Item(Raising, Raising, Raising, Missing)}

\* extract_posts_streaming(subreddit, batch_size=...) against a source that
\* serves a finite listing ("up") or answers with an API error ("down")
Streams ==
    [kind : {"stream"},
     subreddit : {SubredditName(1)},
     batch_size : 0..MaxBatch,
     source : {"up", "down"},
     items : SeqsUpTo(StreamItems, MaxStreamLen)]

InitStream ==
    /\ InitCall
    /\ arg \in Streams
    /\ conf = DefaultConf

\* lines 233-237: the listing is built and iterated, batch = []
StreamStart ==
    /\ pc = "call"
    /\ arg.source = "up"
    /\ idx' = 1
    /\ all_posts' = <<>>
    /\ pc' = "streaming"
    /\ UNCHANGED <<inputs, clock, prev, caught, fetched, df, vresult, outcome, file, hist>>

\* lines 255-257: the request of the listing fails; the generator raises
StreamFail ==
    /\ pc = "call"
    /\ arg.source = "down"
    /\ outcome' = [kind |-> "raise", type |-> "RedditAPIException",
                   msg |-> <<"Streaming extraction failed: ", "received 503 HTTP response">>]
    /\ pc' = "stream_raised"
    /\ UNCHANGED <<inputs, clock, prev, caught, idx, all_posts, fetched, df, vresult, file, hist>>

\* lines 238-250, one turn of the loop: the post is extracted and appended to
\* the batch; a batch that has reached batch_size is yielded and a new one
\* begun; a post whose extraction raises is skipped
StreamNext ==
    /\ pc = "streaming"
    /\ idx <= Len(arg.items)
    /\ LET r == ExtractPostFields(arg.items[idx])
           batch == IF r.kind = "return" THEN Append(all_posts, r.value) ELSE all_posts
       IN IF r.kind = "return" /\ Len(batch) >= arg.batch_size
          THEN fetched' = Append(fetched, batch) /\ all_posts' = <<>>
          ELSE fetched' = fetched /\ all_posts' = batch
    /\ idx' = idx + 1
    /\ UNCHANGED <<inputs, clock, prev, caught, pc, df, vresult, outcome, file, hist>>

\* StreamEnd without the yield of the remaining posts
StreamEndDropsRest ==
    /\ pc = "streaming"
    /\ idx > Len(arg.items)
    /\ all_posts' = <<>>
    /\ outcome' = [kind |-> "return", value |-> "StopIteration"]
    /\ pc' = "stream_done"
    /\ UNCHANGED <<inputs, clock, prev, caught, idx, fetched, df, vresult, file, hist>>

\* lines 252-254: the listing is exhausted; the remaining posts, if any, are
\* yielded and the generator ends
StreamEnd ==
    /\ pc = "streaming"
    /\ idx > Len(arg.items)
    /\ fetched' = IF all_posts # <<>> THEN Append(fetched, all_posts) ELSE fetched
    /\ all_posts' = <<>>
    /\ outcome' = [kind |-> "return", value |-> "StopIteration"]
    /\ pc' = "stream_done"
    /\ UNCHANGED <<inputs, clock, prev, caught, idx, df, vresult, file, hist>>

NextStream ==
    \/ StreamStart
    \/ StreamFail
    \/ StreamNext
    \/ StreamEnd

\* the consumer iterates the generator to its end
SpecStream == InitStream /\ [][NextStream]_vars /\ WF_vars(NextStream)

-----------------------------------------------------------------------------
(* Properties *)

Entered(stage) == stage \in Range(hist)

Position(stage) == CHOOSE i \in 1..Len(hist) : hist[i] = stage

ValidatedClean == vresult.kind = "result" /\ vresult.errors = <<>>

\* C1 as stated: the sink (_save_dataframe) is entered only after a validation
\* of the dataset has completed with no errors, whatever the flags
C1_SinkOnlyAfterCleanValidation ==
    Entered("persist") => ValidatedClean

\* C1 as amended: with validate=true the sink is entered only after the
\* validation stage has completed with no errors; with validate=false no
\* validation takes place before the sink
C1_SinkAfterCleanValidationWhenEnabled ==
    Entered("persist") =>
        /\ validate =>
              /\ ValidatedClean
              /\ Entered("validate")
              /\ Position("validate") < Position("persist")
        /\ ~validate => (vresult = NoResult /\ ~Entered("validate"))

C1_Witness ==
    /\ validate
    /\ Entered("persist")
    /\ pc = "done"

\* C2: with validate=true and a validation result whose error list is not
\* empty, the run ends by raising RedditPipelineException, the sink is never
\* entered and no output file is written
C2_ValidationErrorsAbortBeforeSave ==
    (validate /\ vresult.kind = "result" /\ vresult.errors # <<>>) =>
        /\ pc = "failed"
        /\ outcome.kind = "raise"
        /\ outcome.type = "RedditPipelineException"
        /\ ~Entered("persist")
        /\ file = NoFile

C2_Witness ==
    /\ validate
    /\ vresult.kind = "result"
    /\ Len(vresult.errors) = 1
    /\ pc = "failed"

\* the fetches made so far gave no record: each failed or yielded nothing
NothingFetched == \A i \in 1..Len(fetched) : fetched[i].posts = <<>>

\* C3: when every fetch fails or yields nothing, extract_posts_batch returns
\* an empty DataFrame without raising, and run then fails citing "No data
\* extracted" without entering the transformer, the validator or the sink
C3_EmptyBatchFailsRun ==
    (pc \notin {"init", "batch"} /\ NothingFetched) =>
        /\ df = EmptyFrame
        /\ hist = <<"extract">>
        /\ vresult = NoResult
        /\ file = NoFile
        /\ \/ pc = "extracted" /\ outcome = NoOutcome
           \/ /\ pc = "failed"
              /\ outcome.kind = "raise"
              /\ outcome.type = "RedditPipelineException"
              /\ "No data extracted from Reddit" \in Range(outcome.msg)

C3_Witness ==
    /\ pc = "failed"
    /\ Len(fetched) = MaxSubreddits
    /\ NothingFetched
    /\ \E i \in 1..Len(fetched) : ~fetched[i].ok
    /\ \E i \in 1..Len(fetched) : fetched[i].ok

\* the records of the fetches that succeeded, in the order of the fetches
RECURSIVE FetchedRecords(_)
FetchedRecords(fs) ==
    IF fs = <<>> THEN <<>>
    ELSE (IF Head(fs).ok THEN Head(fs).posts ELSE <<>>) \o FetchedRecords(Tail(fs))

\* C4: extract_posts_batch never raises; every subreddit is fetched whatever
\* the fetches before it did, and the result holds exactly the records of the
\* fetches that succeeded, in the order of the subreddits
C4_BatchIsolatesFailures ==
    /\ pc = "batch" =>
          /\ Len(fetched) = idx - 1
          /\ all_posts = FetchedRecords(fetched)
          /\ outcome = NoOutcome
    /\ pc = "extracted" =>
          /\ outcome = NoOutcome
          /\ Len(fetched) = Len(subreddits)
          /\ Len(df.rows) = Len(FetchedRecords(fetched))
          /\ \A i \in 1..Len(df.rows) : \A c \in Range(POST_FIELDS) :
                df.rows[i][c] = Coerce(FetchedRecords(fetched)[i][c], df.dtype[c])

C4_Witness ==
    /\ pc = "extracted"
    /\ Len(fetched) = 2
    /\ fetched[1].ok /\ fetched[1].posts # <<>>
    /\ ~fetched[2].ok
    /\ Len(df.rows) = Len(fetched[1].posts)

\* C5: every ValidationResult returned by validate or validate_schema has
\* is_valid equal to (errors is empty)
C5_IsValidIffNoErrors ==
    vresult.kind = "result" => (vresult.is_valid <=> vresult.errors = <<>>)

C5_Witness ==
    /\ pc = "validate_returned"
    /\ Len(vresult.errors) = 1
    /\ ~vresult.is_valid

WarningsOnly ==
    /\ validate
    /\ vresult.kind = "result"
    /\ vresult.errors = <<>>
    /\ vresult.warnings # <<>>

\* C6: warnings never block a run: a validation with warnings and no errors
\* has is_valid=true, the run goes on to the sink, and it returns the output
\* location once the sink has written it; the only failure left to such a run
\* is a failure of the sink's own write
C6_WarningsOnlyRunReachesSink ==
    WarningsOnly =>
        /\ vresult.is_valid
        /\ pc \in {"save", "writing", "done", "failed"}
        /\ pc = "done" => outcome = [kind |-> "return", value |-> OutputPath]
        /\ pc = "failed" => (Last(hist) = "persist" /\ caught.type = "OSError")
        /\ pc # "save" => Entered("persist")

C6_Witness ==
    /\ WarningsOnly
    /\ pc = "done"
    /\ Len(vresult.warnings) > 1

\* the texts by which a message tells the stage that failed
StageMarks ==
    [extract |-> {"No data extracted from Reddit"},
     transform |-> {"Data transformation failed: "},
     validate |-> {"Data validation failed: ", "Validation failed: "},
     persist |-> {"Saving data to file", "persist", "save", "_save_dataframe"}]

\* the message of the exception raised names the stage; msg[1] is the text run
\* puts first, msg[2] the first text of the cause
NamesStage(msg, stage) == msg[1] \in StageMarks[stage] \/ msg[2] \in StageMarks[stage]

C8_NoArtifactOnFailure ==
    /\ pc = "failed" => file.state = "absent"
    /\ pc = "done" => file.state = "complete"

\* C9: every row of the dataset transform_reddit_posts returns has a non-null
\* id and a non-null title (checked on the inputs for which no pandas release
\* makes the call raise)
C9_TransformedRowsHaveIdAndTitle ==
    (pc = "transform_returned" /\ ~TransformMayRaise(arg)) =>
        \A i \in 1..Len(df.rows) :
            /\ HasCol(df, "id") => NotNa(df.rows[i]["id"])
            /\ HasCol(df, "title") => NotNa(df.rows[i]["title"])

\* the rows of d that are the first with their id
FirstOccurrences(d) ==
    {i \in 1..Len(d.rows) : \A j \in 1..(i - 1) : d.rows[j]["id"] # d.rows[i]["id"]}

\* C10: _remove_duplicates returns, for a dataset with an id column, exactly
\* the rows that are the first occurrence of their id, in their original
\* order: as many rows as the input has distinct ids, no two with the same id
C10_KeepsFirstOccurrences ==
    (pc = "dedup_returned" /\ HasCol(arg, "id")) =>
        /\ df.cols = arg.cols
        /\ Len(df.rows) = Cardinality({arg.rows[i]["id"] : i \in 1..Len(arg.rows)})
        /\ \A i, j \in 1..Len(df.rows) :
              i # j => df.rows[i]["id"] # df.rows[j]["id"]
        /\ \E f \in [1..Len(df.rows) -> 1..Len(arg.rows)] :
              /\ \A i, j \in 1..Len(df.rows) : i < j => f[i] < f[j]
              /\ {f[i] : i \in 1..Len(df.rows)} = FirstOccurrences(arg)
              /\ \A i \in 1..Len(df.rows) : df.rows[i] = arg.rows[f[i]]

C10_Witness ==
    /\ pc = "dedup_returned"
    /\ HasCol(arg, "id")
    /\ Len(arg.rows) = 3
    /\ Len(df.rows) = 2
    /\ arg.rows[1]["id"] = arg.rows[2]["id"]
    /\ arg.rows[1] # arg.rows[2]

\* C11: _remove_duplicates is idempotent: applied to its own result it returns
\* that result unchanged
C11_DeduplicationIdempotent ==
    pc = "dedup_again" => df = prev

C11_Witness ==
    /\ pc = "dedup_again"
    /\ Len(df.rows) = 2
    /\ Len(arg.rows) = 3

\* the rows of the argument whose cell of column c is missing
Nulls(c) == {i \in 1..Len(arg.rows) : arg.rows[i][c].t \in {"None", "NaN"}}

NullErrorFor(c) ==
    \E i \in 1..Len(vresult.errors) :
        /\ Len(vresult.errors[i]) > 5
        /\ vresult.errors[i][1] = "Column '"
        /\ vresult.errors[i][2] = c
        /\ vresult.errors[i][5] = "% null values (max allowed: "

NullWarningFor(c) ==
    \E i \in 1..Len(vresult.warnings) :
        /\ Len(vresult.warnings[i]) = 5
        /\ vresult.warnings[i][1] = "Column '"
        /\ vresult.warnings[i][2] = c
        /\ vresult.warnings[i][5] = "% null values"

\* C12: for every column and ceiling, validate emits the null-percentage error
\* naming the column iff its percentage of nulls is above the ceiling, and the
\* null-percentage warning iff the percentage is above half the ceiling and
\* not above the ceiling
C12_NullPercentageThresholds ==
    pc = "validate_returned" =>
        \A c \in Range(arg.cols) :
            LET nulls == Cardinality(Nulls(c))
                rows == Len(arg.rows)
                ceiling == conf.max_null_percentage
            IN /\ NullErrorFor(c) <=> nulls * 100 > ceiling * rows
               /\ NullWarningFor(c) <=>
                     (2 * nulls * 100 > ceiling * rows /\ nulls * 100 <= ceiling * rows)

\* the column with 60% nulls, a warning and no error at the ceiling above it
C12_Witness ==
    /\ pc = "validate_returned"
    /\ arg = SparseFrame
    /\ Cardinality(Nulls("num_comments")) * 5 = 3 * Len(arg.rows)
    /\ conf.max_null_percentage > 60
    /\ NullWarningFor("num_comments")
    /\ ~NullErrorFor("num_comments")

\* the required columns the argument does not have
Absent == {"id", "title", "subreddit"} \ Range(arg.cols)

NonEmptyArg == Len(arg.cols) > 0 /\ Len(arg.rows) > 0

RepeatedId ==
    \E i, j \in 1..Len(arg.rows) : i < j /\ arg.rows[i]["id"] = arg.rows[j]["id"]

DuplicateMessage(m) == Len(m) = 3 /\ m[1] = "Found " /\ m[3] = " duplicate IDs"

DuplicateError == \E i \in 1..Len(vresult.errors) : DuplicateMessage(vresult.errors[i])

DuplicateWarning == \E i \in 1..Len(vresult.warnings) : DuplicateMessage(vresult.warnings[i])

\* C14: when an id occurs more than once, validate reports the duplicates as an
\* error (is_valid=false) if require_unique_ids is true and as a warning, with
\* no duplicate error, if it is false; with no repeated id it reports neither
C14_DuplicateIdsErrorOrWarning ==
    (pc = "validate_returned" /\ HasCol(arg, "id")) =>
        /\ (RepeatedId /\ conf.require_unique_ids) =>
              (DuplicateError /\ ~DuplicateWarning /\ ~vresult.is_valid)
        /\ (RepeatedId /\ ~conf.require_unique_ids) =>
              (DuplicateWarning /\ ~DuplicateError)
        /\ ~RepeatedId => (~DuplicateError /\ ~DuplicateWarning)

C14_Witness ==
    /\ pc = "validate_returned"
    /\ HasCol(arg, "id")
    /\ RepeatedId
    /\ ~conf.require_unique_ids
    /\ DuplicateWarning
    /\ vresult.is_valid

\* C15 as stated: two calls of validate on the same unchanged dataset with the
\* same configuration return equal results, whatever time passes between them
C15_ValidateDeterministic ==
    pc = "validate_again" => vresult = prev

\* a creation time of a datetime column that was in the future at the first
\* call (made at Now) and no longer is at the second (made at clock)
DateOvertaken ==
    /\ HasCol(arg, "created_utc")
    /\ arg.dtype["created_utc"] = "datetime64"
    /\ \E i \in 1..Len(arg.rows) :
          /\ arg.rows[i]["created_utc"].t = "date"
          /\ arg.rows[i]["created_utc"].v > Now
          /\ arg.rows[i]["created_utc"].v <= clock

\* C15 as amended: two calls of validate on the same unchanged dataset with the
\* same configuration return equal results unless a creation time of a
\* datetime created_utc column lies after the time of the first call and not
\* after the time of the second
C15_ValidateDeterministicBetweenDates ==
    (pc = "validate_again" /\ ~DateOvertaken) => vresult = prev

C15_Witness ==
    /\ pc = "validate_again"
    /\ clock > Now
    /\ ~DateOvertaken
    /\ \E i \in 1..Len(vresult.errors) :
          vresult.errors[i] = <<"Found ", 1, " posts with future dates">>
    /\ vresult = prev

\* C18: validate leaves its input unchanged: whether a call returns or raises,
\* the dataset has the same columns, dtypes, rows and values after it as before
C18_ValidateLeavesInputUnchanged ==
    [][pc' \in {"validate_returned", "validate_raised", "validate_again"} => arg' = arg]_vars

C18_Witness ==
    /\ pc = "validate_raised"
    /\ HasCol(arg, "title")
    /\ \E i \in 1..Len(arg.rows) :
          arg.rows[i]["title"].t = "str" /\ Strip(arg.rows[i]["title"].v) # arg.rows[i]["title"].v

\* C19: for a dataset without rows, with or without columns, validate returns
\* (it does not raise) a result with is_valid=false whose errors contain
\* "DataFrame is empty"
C19_EmptyDatasetRejected ==
    Len(arg.rows) = 0 =>
        /\ pc # "validate_raised"
        /\ pc \in {"validate_returned", "validate_again"} =>
              /\ ~vresult.is_valid
              /\ \E i \in 1..Len(vresult.errors) : vresult.errors[i] = <<"DataFrame is empty">>

C19_Witness ==
    /\ pc = "validate_returned"
    /\ Len(arg.rows) = 0
    /\ Len(arg.cols) > 0
    /\ ~vresult.is_valid

HasError(m) == \E i \in 1..Len(vresult.errors) : vresult.errors[i] = m

MissingError ==
    \E i \in 1..Len(vresult.errors) : vresult.errors[i][1] = "Missing required columns: "

EmptyArg == Len(arg.cols) = 0 \/ Len(arg.rows) = 0

ScoreNotNumeric ==
    HasCol(arg, "score") /\ arg.dtype["score"] \notin {"int64", "float64", "bool"}

TooFewRows == Len(arg.rows) < conf.min_rows

NoSubredditValue ==
    /\ HasCol(arg, "subreddit")
    /\ \A i \in 1..Len(arg.rows) : arg.rows[i]["subreddit"].t \in {"None", "NaN"}

\* the rules of the quality and business tiers that depend on nothing but the
\* row count and the subreddit column are evaluated whatever the tiers before
\* them reported
LaterTiersEvaluated ==
    /\ TooFewRows <=>
          HasError(<<"DataFrame has ", Len(arg.rows), " rows, minimum required is ",
                     conf.min_rows>>)
    /\ NoSubredditValue <=> HasError(<<"No subreddits found in data">>)

\* C20 as stated: every tier is evaluated on every input, and every rule of
\* the structure tier is evaluated even when another structure rule has
\* already produced an error
C20_NoShortCircuit ==
    pc = "validate_returned" =>
        /\ LaterTiersEvaluated
        /\ EmptyArg <=> HasError(<<"DataFrame is empty">>)
        /\ Absent # {} <=> MissingError
        /\ ScoreNotNumeric <=> HasError(<<"Column 'score' should be numeric">>)

\* C20 as amended: the three tiers are evaluated on every input, whatever the
\* tiers before them reported; within the structure tier the empty-dataset
\* rule ends the tier, and on a non-empty dataset the required-columns rule and
\* the score-type rule are both evaluated
C20_NoShortCircuitBetweenTiers ==
    pc = "validate_returned" =>
        /\ LaterTiersEvaluated
        /\ EmptyArg <=> HasError(<<"DataFrame is empty">>)
        /\ EmptyArg =>
              (~MissingError /\ ~HasError(<<"Column 'score' should be numeric">>))
        /\ ~EmptyArg =>
              /\ Absent # {} <=> MissingError
              /\ ScoreNotNumeric <=> HasError(<<"Column 'score' should be numeric">>)

\* a result holding an error of each tier
C20_Witness ==
    /\ pc = "validate_returned"
    /\ MissingError
    /\ TooFewRows
    /\ HasError(<<"DataFrame has ", 1, " rows, minimum required is ", 2>>)
    /\ HasError(<<"Found ", 1, " posts with future dates">>)

\* the fields of the item that are absent, that raise when read, or whose
\* conversion raises (str() of a broken author, int() of a text that is no number)
FailingFields ==
    {f \in Range(POST_FIELDS) :
        \/ arg.attrs[f].k \in {"missing", "raises"}
        \/ /\ f = "author"
           /\ arg.attrs[f].v.t = "Redditor"
           /\ arg.attrs[f].v.broken
        \/ /\ f = "created_utc"
           /\ arg.attrs[f].v.t = "str"}

\* C16: _extract_post_fields never raises, and the record it returns has a key
\* for every field of POST_FIELDS; a field that is missing, or whose retrieval
\* or conversion fails, is present with the value None
C16_ExtractPostFieldsTotal ==
    (pc \in {"fields_returned", "fields_raised"}) =>
        /\ pc = "fields_returned"
        /\ outcome.kind = "return"
        /\ Len(all_posts) = 1
        /\ DOMAIN all_posts[1] = Range(POST_FIELDS)
        /\ \A f \in FailingFields : all_posts[1][f] = None
        /\ \A f \in Range(POST_FIELDS) \ (FailingFields \cup {"author", "created_utc"}) :
              all_posts[1][f] = arg.attrs[f].v

\* an item whose id raises, whose author cannot be converted and whose
\* creation time is no number
C16_Witness ==
    /\ pc = "fields_returned"
    /\ arg.attrs["id"].k = "raises"
    /\ {"author", "created_utc"} \subseteq FailingFields
    /\ arg.attrs["author"].k = "value"
    /\ arg.attrs["created_utc"].k = "value"
    /\ all_posts[1]["score"] = Num(5)

\* C17: extract_posts called with a sort method it does not know fails with an
\* invalid-argument error (ValueError), an error of another type than the
\* RedditAPIException raised when the source cannot be fetched, and before any
\* request is made to the source
C17_InvalidSortFailsFast ==
    (pc = "posts_raised" /\ arg.sort \notin {"top", "hot", "new", "rising"}) =>
        /\ outcome.type = "ValueError"
        /\ outcome.type # "RedditAPIException"
        /\ fetched = <<>>

NoRepeat(s) == \A i, j \in 1..Len(s) : i # j => s[i] # s[j]

\* C21: no message occurs more than once in the errors or in the warnings of
\* a ValidationResult that validate returns
C21_MessagesOccurOnce ==
    pc \in {"validate_returned", "validate_again"} =>
        (NoRepeat(vresult.errors) /\ NoRepeat(vresult.warnings))

C21_Witness ==
    /\ pc = "validate_returned"
    /\ Len(vresult.errors) > 2
    /\ Len(vresult.warnings) > 1
    /\ \E i, j \in 1..Len(vresult.errors) :
          i # j /\ vresult.errors[i][1] = "Column '" /\ vresult.errors[j][1] = "Column '"

\* C22: with a positive pacing delay, extract_posts_batch pauses between every
\* two consecutive fetches, whether the earlier of the two succeeded or failed
C22_PauseBetweenFetches ==
    delay_between_subreddits > 0 =>
        \A i \in 1..Len(fetched) : i < Len(fetched) => fetched[i].slept

\* the stages of run in their order, those switched off by a flag left out
EnabledStages ==
    <<"extract">> \o (IF transform THEN <<"transform">> ELSE <<>>)
                  \o (IF validate THEN <<"validate">> ELSE <<>>) \o <<"persist">>

StagesInOrder ==
    /\ Len(hist) <= Len(EnabledStages)
    /\ hist = SubSeq(EnabledStages, 1, Len(hist))
    /\ outcome.kind = "return" =>
          (pc = "done" /\ hist = EnabledStages /\ file.state = "complete"
           /\ caught = NoException)

\* C23: in every run the stages start in the order extract, transform,
\* validate, persist, each at most once and each only after every enabled
\* stage before it has completed without a fatal error; after a stage has
\* failed no stage starts; run returns a location only after persist completed
C23_StagesInFixedOrder ==
    /\ []StagesInOrder
    /\ [][hist' # hist => (caught = NoException /\ pc \notin {"failed", "done"})]_vars
    /\ [][pc = "failed" => (hist' = hist /\ pc' = "failed")]_vars

C23_Witness ==
    /\ pc = "done"
    /\ hist = <<"extract", "transform", "validate", "persist">>
    /\ outcome.kind = "return"

\* a created_utc of the dataset, a datetime or an integer epoch, is later than
\* the time now
LaterThan(now) ==
    /\ HasCol(arg, "created_utc")
    /\ \E i \in 1..Len(arg.rows) :
          /\ arg.rows[i]["created_utc"].t \in {"date", "int"}
          /\ arg.rows[i]["created_utc"].v > now

FutureDatesError ==
    \E i \in 1..Len(vresult.errors) :
        /\ vresult.errors[i][1] = "Found "
        /\ vresult.errors[i][3] = " posts with future dates"

\* C24: whenever the dataset has a created_utc column holding a timestamp later
\* than the current time, the result of validate has a future-dates error,
\* whether the column holds datetimes or raw integer epochs
C24_FutureDatesRejected ==
    (pc = "validate_returned" /\ clock = Now /\ LaterThan(Now)) =>
        (FutureDatesError /\ ~vresult.is_valid)

NegativeComments ==
    {i \in 1..Len(arg.rows) :
        arg.rows[i]["num_comments"].t \in {"int", "float"}
        /\ arg.rows[i]["num_comments"].v < 0}

\* the rows whose upvote ratio, held in hundredths, is outside [0, 1]
RatiosOutOfRange ==
    {i \in 1..Len(arg.rows) :
        \/ arg.rows[i]["upvote_ratio"].t = "float"
           /\ (arg.rows[i]["upvote_ratio"].v < 0 \/ arg.rows[i]["upvote_ratio"].v > 100)
        \/ arg.rows[i]["upvote_ratio"].t = "int"
           /\ (arg.rows[i]["upvote_ratio"].v < 0 \/ arg.rows[i]["upvote_ratio"].v > 1)}

NegativeCommentsError ==
    \E i \in 1..Len(vresult.errors) :
        /\ vresult.errors[i][1] = "Found "
        /\ vresult.errors[i][3] = " posts with negative comment counts"

InvalidRatiosError ==
    \E i \in 1..Len(vresult.errors) :
        /\ vresult.errors[i][1] = "Found "
        /\ vresult.errors[i][3] = " posts with invalid upvote ratios"

\* C25: the result of validate has a negative-comment-counts error exactly when
\* a row has a negative num_comments and an invalid-upvote-ratios error exactly
\* when a row has an upvote_ratio outside [0, 1]; a ratio of exactly 0 or 1 and
\* a count of 0 give no such error
C25_RangeRules ==
    pc = "validate_returned" =>
        /\ HasCol(arg, "num_comments") =>
              /\ NegativeComments # {} <=> NegativeCommentsError
              /\ NegativeComments # {} => ~vresult.is_valid
        /\ HasCol(arg, "upvote_ratio") =>
              /\ RatiosOutOfRange # {} <=> InvalidRatiosError
              /\ RatiosOutOfRange # {} => ~vresult.is_valid

\* ratios of exactly 0 and 1 and a count of 0 in a dataset found valid
C25_Witness ==
    /\ pc = "validate_returned"
    /\ HasCol(arg, "upvote_ratio")
    /\ \E i, j \in 1..Len(arg.rows) :
          /\ arg.rows[i]["upvote_ratio"] = Flt(0)
          /\ arg.rows[i]["num_comments"] = Num(0)
          /\ arg.rows[j]["upvote_ratio"] = Flt(100)
    /\ vresult.is_valid

\* the number of nulls in the added column
ExtraNulls ==
    Cardinality({i \in 1..Len(df.rows) : df.rows[i][ExtraColumn].t \in {"None", "NaN"}})

\* the null-percentage error of the added column
ExtraColumnNullError ==
    <<"Column '", ExtraColumn, "' has ", Pct2f(ExtraNulls, Len(df.rows)),
      "% null values (max allowed: ", conf.max_null_percentage, "%)">>

ExtraColumnWarned ==
    \E i \in 1..Len(vresult.warnings) :
        /\ vresult.warnings[i][1] = "Unexpected columns found: "
        /\ ExtraColumn \in Range(vresult.warnings[i][2])

\* C26 as stated: adding an unexpected column, whatever its values, to a
\* dataset that validates without errors leaves the result without errors and
\* is_valid=true
C26_UnexpectedColumnNeverAnError ==
    (pc = "validate_widened" /\ prev.is_valid) =>
        (vresult.errors = <<>> /\ vresult.is_valid)

\* C26 as amended: the presence of the unexpected column gives a warning and no
\* error; the values of the column are under the null-percentage rule like
\* those of any column, so the wider dataset has exactly one error, the
\* null-percentage error of the added column, when its null percentage is
\* above the ceiling, and no error and is_valid=true otherwise
C26_UnexpectedColumnWarnsButNullsCount ==
    (pc = "validate_widened" /\ prev.is_valid) =>
        /\ ExtraColumnWarned
        /\ IF ExtraNulls * 100 > conf.max_null_percentage * Len(df.rows)
           THEN vresult.errors = <<ExtraColumnNullError>> /\ ~vresult.is_valid
           ELSE vresult.errors = <<>> /\ vresult.is_valid

\* an added column with a null in one row of two, at the ceiling of 50%
C26_Witness ==
    /\ pc = "validate_widened"
    /\ Len(df.rows) = 2
    /\ ExtraNulls = 1
    /\ conf.max_null_percentage = 50
    /\ vresult.is_valid
    /\ ExtraColumnWarned

\* the category of the popularity bins for a score given in hundredths
CategoryOf(x) ==
    IF x <= 0 THEN "Negative"
    ELSE IF x <= 10 * 100 THEN "Low"
    ELSE IF x <= 100 * 100 THEN "Medium"
    ELSE IF x <= 1000 * 100 THEN "High"
    ELSE "Viral"

Hundredths(c) == IF c.t = "int" THEN c.v * 100 ELSE c.v

\* C27: in the transformer's output a score in (-inf, 0] is Negative, in
\* (0, 10] Low, in (10, 100] Medium, in (100, 1000] High and in (1000, inf)
\* Viral, a breakpoint belonging to the lower category; a non-null score has
\* exactly that one category and a null score has a null category
C27_PopularityBins ==
    (pc = "transform_returned" /\ HasCol(df, "popularity_category")) =>
        \A i \in 1..Len(df.rows) :
            LET score == df.rows[i]["score"]
                category == df.rows[i]["popularity_category"]
            IN IF score.t \in {"None", "NaN"}
               THEN category.t \in {"None", "NaN"}
               ELSE category = [t |-> "cat", v |-> CategoryOf(Hundredths(score))]

\* a frame with the breakpoint 10 and a missing score
C27_Witness ==
    /\ pc = "transform_returned"
    /\ HasCol(df, "popularity_category")
    /\ Len(df.rows) = 2
    /\ df.rows[1]["score"] = Flt(1000)
    /\ df.rows[1]["popularity_category"] = Cat("Low")
    /\ df.rows[2]["score"] = NaN
    /\ df.rows[2]["popularity_category"] = NaN

RECURSIVE Flatten(_)
Flatten(batches) ==
    IF batches = <<>> THEN <<>> ELSE Head(batches) \o Flatten(Tail(batches))

\* the records of the first n posts of the listing, in its order
ExtractedUpTo(n) == [i \in 1..n |-> ExtractPostFields(arg.items[i]).value]

BatchesWellFormed ==
    /\ \A k \in 1..Len(fetched) :
          /\ fetched[k] # <<>>
          /\ Len(fetched[k]) <= arg.batch_size
          /\ (k < Len(fetched) \/ pc = "streaming") => Len(fetched[k]) = arg.batch_size
    /\ pc = "streaming" =>
          /\ Len(all_posts) < arg.batch_size
          /\ Flatten(fetched) \o all_posts = ExtractedUpTo(idx - 1)
    /\ pc = "stream_done" => Flatten(fetched) = ExtractedUpTo(Len(arg.items))

\* C28: for a finite listing and a batch size n >= 1, the batches that
\* extract_posts_streaming yields, concatenated, are the extracted posts in the
\* order of the listing; every batch but the last holds exactly n posts, the
\* last holds between 1 and n, no batch is empty, and the generator ends
C28_StreamingBatches ==
    (arg.batch_size >= 1 /\ arg.source = "up") =>
        ([]BatchesWellFormed /\ <>(pc = "stream_done"))

\* two full batches and a last one that is not full
C28_Witness ==
    /\ pc = "stream_done"
    /\ arg.batch_size > 1
    /\ Len(fetched) > 1
    /\ Len(fetched[1]) = arg.batch_size
    /\ Len(Last(fetched)) < arg.batch_size

C30_TransformedOutputHasUniqueIds ==
    (pc = "transformed_validated" /\ HasCol(arg, "id") /\ conf.require_unique_ids
     /\ vresult.kind = "result") =>
        /\ ~DuplicateError
        /\ HasCol(df, "id") => vresult.stats["duplicate_ids"] = 0
        /\ \A i, j \in 1..Len(df.rows) : i # j => df.rows[i]["id"] # df.rows[j]["id"]

\* two raw records with the same id, of which the transformer kept the first
C30_Witness ==
    /\ pc = "transformed_validated"
    /\ HasCol(arg, "id")
    /\ Len(arg.rows) = 2
    /\ arg.rows[1]["id"] = Str(<<"a">>)
    /\ arg.rows[2]["id"] = Str(<<"a">>)
    /\ Len(df.rows) = 1
    /\ vresult.kind = "result"
    /\ vresult.stats["duplicate_ids"] = 0

=============================================================================
